---------------------------- MODULE Spec2Model ----------------------------
(***************************************************************************)
(* Verification model of the lokinet identity / trust layer:               *)
(*   - llarp/crypto/crypto_libsodium.cpp  (key agreement, signing, subkey  *)
(*     derivation, key generation)                                         *)
(*   - llarp/router_contact.hpp           (the signed router contact)      *)
(*                                                                         *)
(* Scale.  Every 32-byte buffer of the program is kept as the two bytes    *)
(* the code addresses individually, <<byte 0, byte 31>> (little endian,    *)
(* the thirty bytes in between dropped), every 64-byte buffer as four      *)
(* bytes.  The Ed25519 / Curve25519 group is scaled with it: a cyclic      *)
(* group of order Cofactor * EdOrder with EdOrder the first prime above    *)
(* 2^12, exactly as the real order is a prime just above 2^252 for 256-bit *)
(* scalars, so that clamping, the cofactor, small-order points, reduction  *)
(* modulo the group order and the range of clamped scalars all behave as   *)
(* they do in the library.  Hash functions are a fixed mixing function of  *)
(* their input bytes.                                                      *)
(***************************************************************************)
EXTENDS Integers, Sequences, FiniteSets, TLC

VARIABLES
    dhKeys,     \* party -> SecretKey made by encryption_keygen
    dhOut,      \* slot -> a call of a DH entry point and its result
    edRoot,     \* the root identity SecretKey (seed || public key)
    edIn,       \* inputs of the derivations: index per slot, hash override
    edSub,      \* slot -> results of derive_subkey / derive_subkey_private
    edSig,      \* the last signature made with a derived PrivateKey
    edVer,      \* the last call of verify on that signature
    rcs,        \* instance -> RouterContact (its fields and retained bytes)
    rcSigned,   \* instance -> the signed fields as of the last successful Sign
    wire,       \* the encoded router contact in flight between the instances
    rcVer,      \* the last call of RouterContact::Verify
    codec,      \* a contact, its encoding, the decoding and re-encoding of it
    hold,       \* the contact a holder keeps for a key, its last comparison
                \* with an incoming contact and its last time queries
    xc,         \* a buffer under the stream cipher, in place and copied
    proc,       \* the process: library initialization, the provider, its calls
    kc,         \* a SecretKey and the outcome of its self-check
    rd,         \* one signed contact and the readers querying it
    fs,         \* a contact, the file it is written to and read from
    bd,         \* a buffer, a cursor and the outcome of a bencode read
    cl,         \* a blinding value and its two clampings
    lg,         \* the logic thread: its queue, its timer and the calls traced
    cfg,        \* a configuration being loaded
    reg         \* a registry of option definitions

dhVars == <<dhKeys, dhOut>>
edVars == <<edRoot, edIn, edSub, edSig, edVer>>
rcVars == <<rcs, rcSigned, wire, rcVer>>
dataVars == <<codec, hold, xc>>
sysVars == <<proc, kc, rd, fs, bd, cl, lg, cfg, reg>>

\* every variable of sysVars but `v` keeps its value
SysFrame(v) ==
    /\ IF v = "proc" THEN TRUE ELSE UNCHANGED proc
    /\ IF v = "kc" THEN TRUE ELSE UNCHANGED kc
    /\ IF v = "rd" THEN TRUE ELSE UNCHANGED rd
    /\ IF v = "fs" THEN TRUE ELSE UNCHANGED fs
    /\ IF v = "bd" THEN TRUE ELSE UNCHANGED bd
    /\ IF v = "cl" THEN TRUE ELSE UNCHANGED cl
    /\ IF v = "lg" THEN TRUE ELSE UNCHANGED lg
    /\ IF v = "cfg" THEN TRUE ELSE UNCHANGED cfg
    /\ IF v = "reg" THEN TRUE ELSE UNCHANGED reg
vars == <<dhKeys, dhOut, edRoot, edIn, edSub, edSig, edVer,
          rcs, rcSigned, wire, rcVer, codec, hold, xc,
          proc, kc, rd, fs, bd, cl, lg, cfg, reg>>

(***************************************************************************)
(* Bounds of the model.                                                    *)
(***************************************************************************)
MaxRand == 2        \* draws of the random source: 0..MaxRand
MaxNonce == 1       \* tunnel nonces: 0..MaxNonce
MaxSeed == 1        \* identity seeds: draws 0..MaxSeed of the random source
MaxIndex == 1       \* subkey indices: 0..MaxIndex
MaxMsg == 0         \* messages to sign: 0..MaxMsg
MaxSignRand == 1    \* draws of randombytes_buf in sign: 0..MaxSignRand
MaxNow == 3         \* readings of the clock: 1..MaxNow
MaxSignNow == 1     \* readings of the clock at which a contact is signed
MaxTag == 2         \* version tags written into received bytes: 0..MaxTag
MaxDelta == 2       \* the delta of ExpiresSoon: 0..MaxDelta
MaxBuf == 2         \* bytes in a buffer given to the cipher: 0..MaxBuf

(***************************************************************************)
(* Bytes and bit operations.                                               *)
(***************************************************************************)
Byte == 0..255

RECURSIVE BitAnd(_, _)
BitAnd(a, b) ==
    IF a = 0 \/ b = 0 THEN 0
    ELSE (a % 2) * (b % 2) + 2 * BitAnd(a \div 2, b \div 2)

RECURSIVE BitOr(_, _)
BitOr(a, b) ==
    IF a = 0 THEN b
    ELSE IF b = 0 THEN a
    ELSE (IF a % 2 = 1 \/ b % 2 = 1 THEN 1 ELSE 0) + 2 * BitOr(a \div 2, b \div 2)

BitXor(a, b) == a + b - 2 * BitAnd(a, b)

\* AlignedBuffer<32>::Zero() / default construction
ZeroBuf == <<0, 0>>

\* little-endian value of a scaled 32-byte buffer
LeValue(b) == b[1] + 256 * b[2]

\* the scaled 32-byte buffer holding v
LeBytes(v) == <<v % 256, (v \div 256) % 256>>

(***************************************************************************)
(* The group.                                                              *)
(***************************************************************************)
Cofactor == 8
EdOrder == 4099
GroupOrder == Cofactor * EdOrder
\* the base point: a generator of the prime-order subgroup
BasePoint == Cofactor

(***************************************************************************)
(* Hashing: a fixed mixing function absorbs the input bytes in order; the   *)
(* output bytes are squeezed from the final state.                         *)
(***************************************************************************)
HashPrime == 32749

HashStep(acc, b) == ((acc + b + 1) * (acc + b + 1) + 5 * acc + 13) % HashPrime

RECURSIVE HashFoldRange(_, _, _, _)
\* HashStep over the bytes s[lo..hi] in order, from acc
HashFoldRange(acc, s, lo, hi) ==
    IF lo > hi \/ acc < 0 THEN acc
    ELSE IF lo = hi THEN HashStep(acc, s[lo])
    ELSE HashFoldRange(HashFoldRange(acc, s, lo, (lo + hi) \div 2),
                       s, ((lo + hi) \div 2) + 1, hi)

HashFold(acc, s) == HashFoldRange(acc, s, 1, Len(s))

\* the state of hash function `alg` after absorbing s, and output byte
\* `lane` squeezed from a state
HashState(alg, s) == HashFold((alg * 97 + Len(s)) % HashPrime, s)
HashByte(h, lane) == HashStep(h, lane * 59) % 256

\* crypto_generichash_blake2b(out, outlen, in, inlen, key, keylen); outlen in
\* scaled bytes.  The digest length and the key length are hashed in with the
\* key and the input
crypto_generichash_blake2b(outlen, in, key) ==
    LET h == HashState(1, <<outlen, Len(key)>> \o key \o in)
    IN  [j \in 1..outlen |-> HashByte(h, j)]

\* crypto_hash_sha512 over the concatenation of the update() calls: 64 bytes,
\* scaled to 4
crypto_hash_sha512(in) ==
    LET h == HashState(2, in)
    IN  [j \in 1..4 |-> HashByte(h, j)]

(***************************************************************************)
(* Clamping.                                                               *)
(***************************************************************************)
\* out[0] &= 248; out[31] &= 127; out[31] |= 64;
clamp_ed25519(out) ==
    <<BitAnd(out[1], 248), BitOr(BitAnd(out[2], 127), 64)>>

\* is_clamped: clamping a copy changes nothing
is_clamped(key) == clamp_ed25519(key) = key

(***************************************************************************)
(* Curve25519.                                                             *)
(***************************************************************************)
\* the two self-inverse points are 0 and HalfOrder
HalfOrder == GroupOrder \div 2

\* a point as Curve25519 writes it: the coordinate P and -P share, which
\* never has bit 255 set
curve25519_tobytes(P) ==
    IF P > HalfOrder THEN LeBytes(GroupOrder - P) ELSE LeBytes(P)

\* the point Curve25519 reads: bit 255 of the bytes is masked off
curve25519_frombytes(p) == LeValue(<<p[1], BitAnd(p[2], 127)>>) % GroupOrder

\* crypto_scalarmult_curve25519(q, n, p): q = clamp(n) * p, -1 when q is the
\* all-zero (identity) output, which happens exactly for small-order p
crypto_scalarmult_curve25519(n, p) ==
    LET q == (LeValue(clamp_ed25519(n)) * curve25519_frombytes(p)) % GroupOrder
    IN  [rc |-> IF q = 0 THEN -1 ELSE 0, q |-> curve25519_tobytes(q)]

\* crypto_scalarmult_curve25519_base(q, n)
crypto_scalarmult_curve25519_base(n) ==
    curve25519_tobytes((LeValue(clamp_ed25519(n)) * BasePoint) % GroupOrder)

\* seckey_topublic: sec.data() + 32
seckey_topublic(sec) == SubSeq(sec, 3, 4)

\* the secret half a SecretKey hands to the library: sec.data()
seckey_secret(sec) == SubSeq(sec, 1, 2)

\* CryptoLibSodium::encryption_keygen with d the bytes randbytes() returned
encryption_keygen(d) == d \o crypto_scalarmult_curve25519_base(d)

(***************************************************************************)
(* Key agreement.  An operation with an output parameter takes the buffer  *)
(* as the caller left it and returns the return value and the buffer.      *)
(***************************************************************************)
\* dh without the check of the scalar multiplication's result
dh_unchecked(out, client_pk, server_pk, themPub, usSec) ==
    LET sm == crypto_scalarmult_curve25519(seckey_secret(usSec), themPub)
    IN  [ret |-> TRUE,
         out |-> crypto_generichash_blake2b(2, client_pk \o server_pk \o sm.q, <<>>)]

dh(out, client_pk, server_pk, themPub, usSec) ==
    LET sm == crypto_scalarmult_curve25519(seckey_secret(usSec), themPub)
    IN  IF sm.rc # 0
        THEN [ret |-> FALSE, out |-> out]
        ELSE [ret |-> TRUE,
              out |-> crypto_generichash_blake2b(2, client_pk \o server_pk \o sm.q, <<>>)]

\* dh_client_priv without the nonce in the second-stage hash
dh_client_priv_no_nonce(shared, pk, sk, n) ==
    LET r == dh(ZeroBuf, seckey_topublic(sk), pk, pk, sk)
    IN  IF r.ret
        THEN [ret |-> TRUE, out |-> crypto_generichash_blake2b(2, ZeroBuf, r.out)]
        ELSE [ret |-> FALSE, out |-> shared]

dh_client_priv(shared, pk, sk, n) ==
    LET r == dh(ZeroBuf, seckey_topublic(sk), pk, pk, sk)
    IN  IF r.ret
        THEN [ret |-> TRUE, out |-> crypto_generichash_blake2b(2, n, r.out)]
        ELSE [ret |-> FALSE, out |-> shared]

\* dh_server_priv hashing the two public keys in the order of the client side
dh_server_priv_swapped(shared, pk, sk, n) ==
    LET r == dh(ZeroBuf, seckey_topublic(sk), pk, pk, sk)
    IN  IF r.ret
        THEN [ret |-> TRUE, out |-> crypto_generichash_blake2b(2, n, r.out)]
        ELSE [ret |-> FALSE, out |-> shared]

dh_server_priv(shared, pk, sk, n) ==
    LET r == dh(ZeroBuf, pk, seckey_topublic(sk), pk, sk)
    IN  IF r.ret
        THEN [ret |-> TRUE, out |-> crypto_generichash_blake2b(2, n, r.out)]
        ELSE [ret |-> FALSE, out |-> shared]

dh_client(shared, pk, sk, n) == dh_client_priv(shared, pk, sk, n)
dh_server(shared, pk, sk, n) == dh_server_priv(shared, pk, sk, n)
transport_dh_client(shared, pk, sk, n) == dh_client_priv(shared, pk, sk, n)
transport_dh_server(shared, pk, sk, n) == dh_server_priv(shared, pk, sk, n)


(***************************************************************************)
(* Ed25519: points, scalars and the library calls the provider makes.      *)
(***************************************************************************)
\* ge25519_p3_tobytes: a point is written as its y coordinate, shared by P and
\* -P, with the sign of x in the top bit of byte 31
ge25519_tobytes(P) ==
    IF P > HalfOrder THEN LeBytes((GroupOrder - P) + 32768) ELSE LeBytes(P)

\* ge25519_is_canonical and ge25519_frombytes: the sign bit negates the
\* point, which leaves a self-inverse point as it is
ge25519_frombytes(b) ==
    LET y == LeValue(b) % 32768
        sign == LeValue(b) \div 32768
    IN  IF y > HalfOrder
        THEN [ok |-> FALSE, P |-> 0]
        ELSE [ok |-> TRUE,
              P |-> IF sign = 1 THEN (GroupOrder - y) % GroupOrder ELSE y]

\* ge25519_has_small_order: decided on the bytes with bit 255 masked off
ge25519_has_small_order(b) ==
    ge25519_frombytes(b).ok /\ ge25519_frombytes(b).P % EdOrder = 0

\* ge25519_is_on_main_subgroup
ge25519_is_on_main_subgroup(P) == P % Cofactor = 0

\* sodium_is_zero
sodium_is_zero(b) == \A k \in 1..Len(b) : b[k] = 0

\* crypto_core_ed25519_scalar_reduce(r, s): the 64-byte s modulo the group order
crypto_core_ed25519_scalar_reduce(s) ==
    LeBytes((((((s[4] * 256 + s[3]) % EdOrder) * 256 + s[2]) % EdOrder) * 256 + s[1])
            % EdOrder)

\* crypto_core_ed25519_scalar_mul(z, x, y): z = x * y modulo the group order
crypto_core_ed25519_scalar_mul(x, y) ==
    LeBytes(((LeValue(x) % EdOrder) * (LeValue(y) % EdOrder)) % EdOrder)

\* crypto_core_ed25519_scalar_add(z, x, y): the sum of the two 32-byte
\* numbers, its carry out of the 32 bytes dropped, modulo the group order
crypto_core_ed25519_scalar_add(x, y) ==
    LeBytes(((LeValue(x) + LeValue(y)) % 65536) % EdOrder)

\* crypto_scalarmult_ed25519_base_noclamp(q, n): q = n * B with bit 255 of n
\* cleared; q is written in any case, -1 for the identity or an all-zero n
crypto_scalarmult_ed25519_base_noclamp(n) ==
    LET t == LeValue(<<n[1], BitAnd(n[2], 127)>>)
        Q == (t * BasePoint) % GroupOrder
    IN  [rc |-> IF Q = 0 \/ sodium_is_zero(n) THEN -1 ELSE 0, q |-> ge25519_tobytes(Q)]

\* crypto_scalarmult_ed25519_base(q, n): the same with n clamped; the test
\* for an all-zero n is made on the n given
crypto_scalarmult_ed25519_base(n) ==
    [rc |-> IF crypto_scalarmult_ed25519_base_noclamp(clamp_ed25519(n)).rc # 0
               \/ sodium_is_zero(n)
            THEN -1 ELSE 0,
     q |-> crypto_scalarmult_ed25519_base_noclamp(clamp_ed25519(n)).q]

\* crypto_scalarmult_ed25519(q, n, p): q = clamp(n) * p.  -1 with q untouched
\* when p is not canonical, of small order or outside the main subgroup; -1
\* with q written when the product is the identity or n is all zero.
crypto_scalarmult_ed25519(q, n, p) ==
    LET P == ge25519_frombytes(p)
        Q == (LeValue(clamp_ed25519(n)) * P.P) % GroupOrder
    IN  IF ~P.ok \/ ge25519_has_small_order(p) \/ ~ge25519_is_on_main_subgroup(P.P)
        THEN [rc |-> -1, q |-> q]
        ELSE [rc |-> IF Q = 0 \/ sodium_is_zero(n) THEN -1 ELSE 0,
              q |-> ge25519_tobytes(Q)]

\* the map of ge25519_from_uniform from a field element to a point of the
\* main subgroup: a mixing of the element's bytes, times the cofactor
elligator2(r_fe) ==
    (Cofactor * (HashFold((3 * 97) % HashPrime, r_fe) % EdOrder)) % GroupOrder

\* crypto_core_ed25519_from_uniform(p, r): bits 0..254 of r are the field
\* element that is mapped, bit 255 negates the point
crypto_core_ed25519_from_uniform(r) ==
    LET x_sign == r[2] \div 128
        P == elligator2(<<r[1], BitAnd(r[2], 127)>>)
    IN  ge25519_tobytes(IF x_sign = 1 THEN (GroupOrder - P) % GroupOrder
                        ELSE P)

\* crypto_sign_ed25519_seed_keypair(pk, sk, seed): sk = seed || pk with
\* pk = clamp(SHA512(seed)[0..31]) * B
crypto_sign_seed_keypair(seed) ==
    LET az == crypto_hash_sha512(seed)
        pk == crypto_scalarmult_ed25519_base(SubSeq(az, 1, 2)).q
    IN  [pk |-> pk, sk |-> seed \o pk]

\* crypto_sign_detached(sig, NULL, m, mlen, sk)
crypto_sign_detached(m, sk) ==
    LET az == crypto_hash_sha512(SubSeq(sk, 1, 2))
        a == clamp_ed25519(SubSeq(az, 1, 2))
        nonce == crypto_core_ed25519_scalar_reduce(
                     crypto_hash_sha512(SubSeq(az, 3, 4) \o m))
        R == crypto_scalarmult_ed25519_base_noclamp(nonce).q
        hram == crypto_core_ed25519_scalar_reduce(
                    crypto_hash_sha512(R \o SubSeq(sk, 3, 4) \o m))
    IN  R \o crypto_core_ed25519_scalar_add(
                 crypto_core_ed25519_scalar_mul(hram, a), nonce)

\* crypto_sign_verify_detached(sig, m, mlen, pk): 0 or -1
crypto_sign_verify_detached(sig, m, pk) ==
    LET R == SubSeq(sig, 1, 2)
        S == SubSeq(sig, 3, 4)
        A == ge25519_frombytes(pk)
        h == crypto_core_ed25519_scalar_reduce(crypto_hash_sha512(R \o pk \o m))
        \* R' = S * B - h * A
        rcheck == (((LeValue(S) * BasePoint) % GroupOrder)
                   + (GroupOrder - ((LeValue(h) * A.P) % GroupOrder))) % GroupOrder
    IN  IF \/ LeValue(S) >= EdOrder
           \/ ge25519_has_small_order(R)
           \/ ~A.ok
           \/ ge25519_has_small_order(pk)
        THEN -1
        ELSE IF ge25519_tobytes(rcheck) = R THEN 0 ELSE -1

(***************************************************************************)
(* Keys.  A SecretKey is seed || public key; a PrivateKey is a raw scalar. *)
(***************************************************************************)
\* SecretKey::toPrivate: the first half of SHA512(seed), clamped
SecretKey_toPrivate(sk) ==
    LET h == crypto_hash_sha512(SubSeq(sk, 1, 2))
    IN  <<BitAnd(h[1], 248), BitOr(BitAnd(h[2], 63), 64)>>

\* PrivateKey::toPublic: pubkey = scalar * B, without clamping
PrivateKey_toPublic(a) == crypto_scalarmult_ed25519_base_noclamp(a).q

\* CryptoLibSodium::seed_to_secretkey
seed_to_secretkey(seed) == crypto_sign_seed_keypair(seed).sk

\* CryptoLibSodium::identity_keygen with seed the random seed the library drew
identity_keygen(seed) == crypto_sign_seed_keypair(seed).sk

(***************************************************************************)
(* Signing and verification.                                               *)
(***************************************************************************)
\* sign passing a length one short of the buffer
sign_short_buffer(secret, buf) ==
    [ret |-> TRUE,
     sig |-> crypto_sign_detached(SubSeq(buf, 1, Len(buf) - 1), secret)]

\* CryptoLibSodium::sign(Signature&, const SecretKey&, const llarp_buffer_t&)
sign(secret, buf) == [ret |-> TRUE, sig |-> crypto_sign_detached(buf, secret)]

\* sign with a PrivateKey, S computed without the secret scalar's share
sign_private_no_key(secret, buf, r_hash_input) ==
    LET pubkey == PrivateKey_toPublic(secret)
        nonce == crypto_core_ed25519_scalar_reduce(
                     crypto_hash_sha512(r_hash_input \o buf))
        R == crypto_scalarmult_ed25519_base_noclamp(nonce).q
        hram == crypto_core_ed25519_scalar_reduce(
                    crypto_hash_sha512(R \o pubkey \o buf))
    IN  [ret |-> TRUE, sig |-> R \o crypto_core_ed25519_scalar_add(hram, nonce)]

\* CryptoLibSodium::sign(Signature&, const PrivateKey&, const llarp_buffer_t&)
\* with r_hash_input the bytes randombytes_buf() returned
sign_private(secret, buf, r_hash_input) ==
    LET pubkey == PrivateKey_toPublic(secret)
        \* r = H(H(k) || M) where here H(k) is random bytes
        nonce == crypto_core_ed25519_scalar_reduce(
                     crypto_hash_sha512(r_hash_input \o buf))
        \* R = r * B
        R == crypto_scalarmult_ed25519_base_noclamp(nonce).q
        \* hram = H(R || A || M)
        hram == crypto_core_ed25519_scalar_reduce(
                    crypto_hash_sha512(R \o pubkey \o buf))
        \* S = r + H(R || A || M) * s
        mulres == crypto_core_ed25519_scalar_mul(hram, secret)
    IN  [ret |-> TRUE, sig |-> R \o crypto_core_ed25519_scalar_add(mulres, nonce)]

\* verify comparing the library's result with the wrong value
verify_wrong_compare(pub, buf, sig) == crypto_sign_verify_detached(sig, buf, pub) # 1

\* CryptoLibSodium::verify
verify(pub, buf, sig) == crypto_sign_verify_detached(sig, buf, pub) # -1

(***************************************************************************)
(* Subkey derivation.  NoHash is the null `hash` argument.                 *)
(***************************************************************************)
NoHash == <<>>

\* the n low bytes of i, least significant first
RECURSIVE LeBytesN(_, _)
LeBytesN(i, n) == IF n = 0 THEN <<>> ELSE <<i % 256>> \o LeBytesN(i \div 256, n - 1)

\* htole64buf
htole64buf(i) == LeBytesN(i, 8)

\* hash(): blake2b with a 64-byte (scaled: 4-byte) result
hash(buff) == crypto_generichash_blake2b(4, buff, <<>>)

\* make_scalar leaving the index out of the hashed buffer
make_scalar_no_index(k, i) ==
    crypto_core_ed25519_from_uniform(SubSeq(hash(htole64buf(0) \o k), 1, 2))

\* make_scalar: b = i || k, n = H(b), make_point(n)
make_scalar(k, i) ==
    crypto_core_ed25519_from_uniform(SubSeq(hash(htole64buf(i) \o k), 1, 2))

\* derive_subkey handing make_scalar the output key in place of the root key
derive_subkey_of_output(out_pubkey, root_pubkey, key_n, hash_override) ==
    LET h == IF hash_override # NoHash THEN hash_override
             ELSE make_scalar(out_pubkey, key_n)
        sm == crypto_scalarmult_ed25519(out_pubkey, h, root_pubkey)
    IN  [ret |-> sm.rc = 0, out |-> sm.q]

\* derive_subkey that hashes the index and the root key whether or not a
\* value was passed
derive_subkey_hashed(out_pubkey, root_pubkey, key_n, hash_override) ==
    LET h == make_scalar(root_pubkey, key_n)
        sm == crypto_scalarmult_ed25519(out_pubkey, h, root_pubkey)
    IN  [ret |-> sm.rc = 0, out |-> sm.q]

\* CryptoLibSodium::derive_subkey
derive_subkey(out_pubkey, root_pubkey, key_n, hash_override) ==
    LET h == IF hash_override # NoHash THEN hash_override
             ELSE make_scalar(root_pubkey, key_n)
        sm == crypto_scalarmult_ed25519(out_pubkey, h, root_pubkey)
    IN  [ret |-> sm.rc = 0, out |-> sm.q]

\* derive_subkey_private without the clamping of h
derive_subkey_private_unclamped(out_key, root_key, key_n, hash_override) ==
    LET root_pubkey == seckey_topublic(root_key)
        h == IF hash_override # NoHash THEN hash_override
             ELSE make_scalar(root_pubkey, key_n)
        a == SecretKey_toPrivate(root_key)
    IN  [ret |-> TRUE, out |-> crypto_core_ed25519_scalar_mul(h, a)]

\* the clamping of derive_subkey_private without its last statement
derive_subkey_private_clamp_low(h) == <<BitAnd(h[1], 248), BitAnd(h[2], 63)>>

\* the clamping written out in derive_subkey_private:
\* h[0] &= 248; h[31] &= 63; h[31] |= 64;
derive_subkey_private_clamp(h) ==
    <<BitAnd(h[1], 248), BitOr(BitAnd(h[2], 63), 64)>>

\* CryptoLibSodium::derive_subkey_private
derive_subkey_private(out_key, root_key, key_n, hash_override) ==
    LET root_pubkey == seckey_topublic(root_key)
        h0 == IF hash_override # NoHash THEN hash_override
              ELSE make_scalar(root_pubkey, key_n)
        h == derive_subkey_private_clamp(h0)
        a == SecretKey_toPrivate(root_key)
    IN  \* a' = ha
        [ret |-> TRUE, out |-> crypto_core_ed25519_scalar_mul(h, a)]

(***************************************************************************)
(* Inputs of the key-agreement operations.                                 *)
(***************************************************************************)
\* what randbytes() / randombytes_buf() may return (a bounded sample, with
\* the low and the high bits that clamping touches both set and clear)
RandomBuf(k) == <<(37 + 101 * k) % 256, (211 + 59 * k) % 256>>
RandomBufs == {RandomBuf(k) : k \in 0..MaxRand}

\* TunnelNonce values
TunnelNonces == {<<k, 255 - k>> : k \in 0..MaxNonce}

\* a public key of small order (a point of order Cofactor), as a peer may send it
SmallOrderKey == LeBytes(EdOrder)

\* what a caller's SharedSecret holds before a call: an earlier secret
StaleSecret == <<170, 85>>

Parties == {"A", "B"}
Peer(p) == IF p = "A" THEN "B" ELSE "A"
ClientOps == {"dh_client", "transport_dh_client"}
ServerOps == {"dh_server", "transport_dh_server"}
DhOps == ClientOps \cup ServerOps
\* the client side is party A, the relay / server side party B
Caller(op) == IF op \in ClientOps THEN "A" ELSE "B"

\* the harness keeps the last two calls, to compare them
DhSlots == {1, 2}

NoCall == [called |-> FALSE, op |-> "dh_client", pk |-> ZeroBuf, n |-> ZeroBuf,
           ret |-> FALSE, shared |-> ZeroBuf]

\* the record of a call: the entry point, its inputs, its result
Called(op, pk, n, r) ==
    [called |-> TRUE, op |-> op, pk |-> pk, n |-> n, ret |-> r.ret, shared |-> r.out]

InitDhVars ==
    /\ dhKeys \in [Parties -> {encryption_keygen(d) : d \in RandomBufs}]
    /\ dhOut = [i \in DhSlots |-> NoCall]

\* a party makes a fresh key pair; the calls made with the old one are dropped
EncryptionKeygen ==
    \E p \in Parties, d \in RandomBufs :
        /\ dhKeys' = [dhKeys EXCEPT ![p] = encryption_keygen(d)]
        /\ dhOut' = [i \in DhSlots |-> NoCall]
        /\ UNCHANGED <<edVars, rcVars, dataVars, sysVars>>

\* the all-zero key with bit 255 set, which is read as the all-zero key
HighBitKey == <<0, 128>>

\* the public keys a party may be handed for its peer
PeerKeys(p) == {seckey_topublic(dhKeys[Peer(p)]), SmallOrderKey, HighBitKey}

DhClient ==
    \E i \in DhSlots, pk \in PeerKeys("A"), n \in TunnelNonces :
        /\ dhOut' = [dhOut EXCEPT ![i] =
              Called("dh_client", pk, n, dh_client(StaleSecret, pk, dhKeys["A"], n))]
        /\ UNCHANGED <<dhKeys, edVars, rcVars, dataVars, sysVars>>

DhServer ==
    \E i \in DhSlots, pk \in PeerKeys("B"), n \in TunnelNonces :
        /\ dhOut' = [dhOut EXCEPT ![i] =
              Called("dh_server", pk, n, dh_server(StaleSecret, pk, dhKeys["B"], n))]
        /\ UNCHANGED <<dhKeys, edVars, rcVars, dataVars, sysVars>>

TransportDhClient ==
    \E i \in DhSlots, pk \in PeerKeys("A"), n \in TunnelNonces :
        /\ dhOut' = [dhOut EXCEPT ![i] =
              Called("transport_dh_client", pk, n,
                     transport_dh_client(StaleSecret, pk, dhKeys["A"], n))]
        /\ UNCHANGED <<dhKeys, edVars, rcVars, dataVars, sysVars>>

TransportDhServer ==
    \E i \in DhSlots, pk \in PeerKeys("B"), n \in TunnelNonces :
        /\ dhOut' = [dhOut EXCEPT ![i] =
              Called("transport_dh_server", pk, n,
                     transport_dh_server(StaleSecret, pk, dhKeys["B"], n))]
        /\ UNCHANGED <<dhKeys, edVars, rcVars, dataVars, sysVars>>

NextDH ==
    \/ EncryptionKeygen
    \/ DhClient
    \/ DhServer
    \/ TransportDhClient
    \/ TransportDhServer

(***************************************************************************)
(* Key agreement: properties.                                              *)
(***************************************************************************)
\* slot i holds a call that was handed the peer's own public key
Honest(i) ==
    /\ dhOut[i].called
    /\ dhOut[i].pk = seckey_topublic(dhKeys[Peer(Caller(dhOut[i].op))])

\* C1: DH symmetry.  Whenever the client side (dh_client or
\* transport_dh_client, with B's public key and A's secret key) and the server
\* side (dh_server or transport_dh_server, with A's public key and B's secret
\* key) were called with the same nonce, both calls succeeded and wrote the same
\* shared secret; and the transport entry point of a side returns what the path
\* entry point of that side returns on the same inputs.
C1_DhSymmetry ==
    \A i, j \in DhSlots :
        /\ (/\ Honest(i) /\ dhOut[i].op \in ClientOps
            /\ Honest(j) /\ dhOut[j].op \in ServerOps
            /\ dhOut[i].n = dhOut[j].n) =>
               /\ dhOut[i].ret
               /\ dhOut[j].ret
               /\ dhOut[i].shared = dhOut[j].shared
        /\ (/\ dhOut[i].called /\ dhOut[j].called
            /\ Caller(dhOut[i].op) = Caller(dhOut[j].op)
            /\ dhOut[i].pk = dhOut[j].pk /\ dhOut[i].n = dhOut[j].n) =>
               /\ dhOut[i].ret = dhOut[j].ret
               /\ dhOut[i].shared = dhOut[j].shared

\* client and server of two different key pairs agreed on a secret
C1_Witness ==
    /\ dhKeys["A"] # dhKeys["B"]
    /\ Honest(1) /\ dhOut[1].op = "dh_client" /\ dhOut[1].ret
    /\ Honest(2) /\ dhOut[2].op = "dh_server" /\ dhOut[2].ret
    /\ dhOut[1].n = dhOut[2].n
    /\ dhOut[1].shared = dhOut[2].shared
    /\ dhOut[1].shared # StaleSecret

\* C2: nonce binding.  Two successful calls of one side with the same secret key
\* and the same peer public key return the same shared secret when their nonces
\* are equal and different shared secrets when their nonces differ.
C2_NonceBinding ==
    \A i, j \in DhSlots :
        (/\ dhOut[i].called /\ dhOut[j].called
         /\ Caller(dhOut[i].op) = Caller(dhOut[j].op)
         /\ dhOut[i].ret /\ dhOut[j].ret
         /\ dhOut[i].pk = dhOut[j].pk) =>
            ((dhOut[i].n = dhOut[j].n) <=> (dhOut[i].shared = dhOut[j].shared))

\* a side succeeded twice on the same keys with different nonces
C2_Witness ==
    /\ Honest(1) /\ Honest(2)
    /\ dhOut[1].op = "dh_client" /\ dhOut[2].op = "dh_client"
    /\ dhOut[1].ret /\ dhOut[2].ret
    /\ dhOut[1].n # dhOut[2].n
    /\ dhOut[1].shared # dhOut[2].shared

\* the scalar multiplication inside dh reports a degenerate result for the call
\* in slot i
Degenerate(i) ==
    crypto_scalarmult_curve25519(seckey_secret(dhKeys[Caller(dhOut[i].op)]),
                                 dhOut[i].pk).rc # 0

\* C3: degenerate scalar multiplication.  Every call of the four DH entry points
\* whose scalar multiplication is degenerate returned false and left the
\* caller's SharedSecret as it was before the call.
C3_DegenerateRejected ==
    \A i \in DhSlots :
        (dhOut[i].called /\ Degenerate(i)) =>
            /\ ~dhOut[i].ret
            /\ dhOut[i].shared = StaleSecret

\* a path and a transport entry point were called with a small-order key and
\* refused, the caller's buffer untouched
C3_Witness ==
    /\ dhOut[1].called /\ dhOut[1].op = "dh_server" /\ Degenerate(1)
    /\ dhOut[2].called /\ dhOut[2].op = "transport_dh_client" /\ Degenerate(2)
    /\ \A i \in DhSlots : ~dhOut[i].ret /\ dhOut[i].shared = StaleSecret

(***************************************************************************)
(* Identity keys, subkey derivation and derived-key signing: the harness.  *)
(***************************************************************************)
Seeds == {RandomBuf(k) : k \in 0..MaxSeed}
Indices == 0..MaxIndex
Messages == {<<109, k>> : k \in 0..MaxMsg}

\* the nonce sign(PrivateKey) makes of the random bytes and the message
SignNonce(r_hash_input, buf) ==
    crypto_core_ed25519_scalar_reduce(crypto_hash_sha512(r_hash_input \o buf))

\* random bytes whose hash with the first message reduces to the zero scalar
ZeroNonceRand == <<2, 160>>

\* what randombytes_buf() may return in sign
SignRands == {RandomBuf(k) : k \in 0..MaxSignRand} \cup {ZeroNonceRand}

\* the root public keys handed to derive_subkey: the root's own and a point
\* of small order, as a peer may send
RootPubKeys == {seckey_topublic(edRoot), SmallOrderKey}

\* a pre-computed 32-byte value passed as the `hash` argument
OverrideHash == <<93, 214>>

EdSlots == {1, 2}

\* the output buffer of a slot: `out` its bytes, `was` the bytes it held
\* when the last call was made, `key` the root public key of that call
NoResult == [called |-> FALSE, ret |-> FALSE, key |-> ZeroBuf, was |-> ZeroBuf,
             out |-> ZeroBuf]
Result(r, key, was) ==
    [called |-> TRUE, ret |-> r.ret, key |-> key, was |-> was, out |-> r.out]
NoSub == [pub |-> NoResult, priv |-> NoResult]
NoSig == [called |-> FALSE, slot |-> 1, msg |-> <<>>, rand |-> ZeroBuf,
          ret |-> FALSE, sig |-> ZeroBuf \o ZeroBuf]
NoVer == [called |-> FALSE, key |-> "root", ok |-> FALSE]

InitEdVars ==
    /\ edRoot \in {identity_keygen(seed) : seed \in Seeds}
    /\ edIn \in [idx : [EdSlots -> Indices], hash : {NoHash, OverrideHash}]
    /\ edSub = [i \in EdSlots |-> NoSub]
    /\ edSig = NoSig
    /\ edVer = NoVer

\* a new root identity; what was derived from the old one is dropped
IdentityKeygen ==
    \E seed \in Seeds :
        /\ edRoot' = identity_keygen(seed)
        /\ edSub' = [i \in EdSlots |-> NoSub]
        /\ edSig' = NoSig
        /\ edVer' = NoVer
        /\ UNCHANGED <<edIn, dhVars, rcVars, dataVars, sysVars>>

\* derive_subkey(out_pubkey, root_pubkey, key_n, hash) into the PubKey of
\* slot i, which holds what the last call left in it
DeriveSubkey ==
    \E i \in EdSlots, root_pubkey \in RootPubKeys :
        /\ edSub' = [edSub EXCEPT ![i].pub =
              Result(derive_subkey(edSub[i].pub.out, root_pubkey,
                                   edIn.idx[i], edIn.hash),
                     root_pubkey, edSub[i].pub.out)]
        /\ UNCHANGED <<edRoot, edIn, edSig, edVer, dhVars, rcVars, dataVars, sysVars>>

\* derive_subkey_private(out_key, root_key, key_n, hash) into the PrivateKey
\* of slot i; a signature made with the slot's earlier key is dropped
DeriveSubkeyPrivate ==
    \E i \in EdSlots :
        /\ edSub' = [edSub EXCEPT ![i].priv =
              Result(derive_subkey_private(edSub[i].priv.out, edRoot,
                                           edIn.idx[i], edIn.hash),
                     seckey_topublic(edRoot), edSub[i].priv.out)]
        /\ edSig' = IF edSig.called /\ edSig.slot = i THEN NoSig ELSE edSig
        /\ edVer' = IF edSig.called /\ edSig.slot = i THEN NoVer ELSE edVer
        /\ UNCHANGED <<edRoot, edIn, dhVars, rcVars, dataVars, sysVars>>

\* sign(sig, PrivateKey, buf) with the private subkey of slot i
SignPrivate ==
    \E i \in EdSlots, m \in Messages, r \in SignRands :
        /\ edSub[i].priv.called /\ edSub[i].priv.ret
        /\ edSig' = [called |-> TRUE, slot |-> i, msg |-> m, rand |-> r,
                     ret |-> sign_private(edSub[i].priv.out, m, r).ret,
                     sig |-> sign_private(edSub[i].priv.out, m, r).sig]
        /\ edVer' = NoVer
        /\ UNCHANGED <<edRoot, edIn, edSub, dhVars, rcVars, dataVars, sysVars>>

\* the public keys a signature is checked against: the signer's own (the A of
\* the signature), the derived public key of a slot, the root's
VerKeys == {"signer", "sub1", "sub2", "root"}
SlotOfKey(k) == IF k = "sub1" THEN 1 ELSE 2
KeyAvailable(k) ==
    k \in {"sub1", "sub2"} => edSub[SlotOfKey(k)].pub.called /\ edSub[SlotOfKey(k)].pub.ret
KeyBytes(k) ==
    IF k = "root" THEN seckey_topublic(edRoot)
    ELSE IF k = "signer" THEN PrivateKey_toPublic(edSub[edSig.slot].priv.out)
    ELSE edSub[SlotOfKey(k)].pub.out

\* verify(pub, buf, sig) of the signature and its message under one of the keys
VerifySig ==
    \E k \in VerKeys :
        /\ edSig.called
        /\ KeyAvailable(k)
        /\ edVer' = [called |-> TRUE, key |-> k,
                     ok |-> verify(KeyBytes(k), edSig.msg, edSig.sig)]
        /\ UNCHANGED <<edRoot, edIn, edSub, edSig, dhVars, rcVars, dataVars, sysVars>>

NextEd ==
    \/ IdentityKeygen
    \/ DeriveSubkey
    \/ DeriveSubkeyPrivate
    \/ SignPrivate
    \/ VerifySig

(***************************************************************************)
(* The stream cipher.  A llarp_buffer_t is the memory from its base on and *)
(* its size sz; the memory may extend past sz.                             *)
(***************************************************************************)
\* crypto_stream_xchacha20: clen bytes of the key stream of key k and the
\* 24-byte nonce at n (of a 32-byte nonce, the kept byte 0)
crypto_stream_xchacha20(clen, n, k) ==
    LET h == HashState(3, <<n[1]>> \o k)
    IN  [j \in 1..clen |-> HashByte(h, j)]

\* crypto_stream_xchacha20_xor(c, m, mlen, n, k): the first mlen bytes at c
\* become m xor the key stream; always 0
crypto_stream_xchacha20_xor(c, m, mlen, n, k) ==
    LET ks == crypto_stream_xchacha20(mlen, n, k)
    IN  [rc |-> 0,
         c |-> [j \in 1..Len(c) |->
                  IF j <= mlen THEN BitXor(m[j], ks[j]) ELSE c[j]]]

\* a cipher adding the key stream instead of xoring it
xchacha20_add(buff, k, n) ==
    [ret |-> TRUE,
     buff |-> [buff EXCEPT !.base =
                 [j \in 1..Len(buff.base) |->
                    IF j <= buff.sz
                    THEN (buff.base[j] + crypto_stream_xchacha20(buff.sz, n, k)[j]) % 256
                    ELSE buff.base[j]]]]

\* CryptoLibSodium::xchacha20: in place
xchacha20(buff, k, n) ==
    LET r == crypto_stream_xchacha20_xor(buff.base, buff.base, buff.sz, n, k)
    IN  [ret |-> r.rc = 0, buff |-> [buff EXCEPT !.base = r.c]]

\* xchacha20_alt without the comparison of the sizes
xchacha20_alt_unchecked(out, in, k, n) ==
    LET r == crypto_stream_xchacha20_xor(out.base, in.base, in.sz, n, k)
    IN  [ret |-> r.rc = 0, out |-> [out EXCEPT !.base = r.c]]

\* CryptoLibSodium::xchacha20_alt: from in to out
xchacha20_alt(out, in, k, n) ==
    IF in.sz > out.sz THEN [ret |-> FALSE, out |-> out]
    ELSE LET r == crypto_stream_xchacha20_xor(out.base, in.base, in.sz, n, k)
         IN  [ret |-> r.rc = 0, out |-> [out EXCEPT !.base = r.c]]

(***************************************************************************)
(* The stream cipher: the harness.  One buffer is ciphered in place, up to *)
(* twice; its original contents are also ciphered into a destination of    *)
(* any size, and that destination into a second one.                       *)
(***************************************************************************)
BufSizes == 0..MaxBuf
DataBytes == {7, 255}
GuardByte == 90
Plaintexts == UNION {[1..sz -> DataBytes] : sz \in BufSizes}
CipherKeys == {RandomBuf(0), RandomBuf(1)}

\* a buffer over exactly these bytes
BufferOf(bytes) == [base |-> bytes, sz |-> Len(bytes)]

\* a destination of sz bytes, its memory and the byte after it not yet
\* written
Destination(sz) == [base |-> [j \in 1..(sz + 1) |-> GuardByte], sz |-> sz]

NoAlt == [called |-> FALSE, ret |-> FALSE, in |-> BufferOf(<<>>),
          before |-> Destination(0), out |-> Destination(0)]
NoXc == [k |-> ZeroBuf, n |-> ZeroBuf, orig |-> <<>>, buff |-> BufferOf(<<>>),
         applied |-> 0, once |-> <<>>, alt |-> NoAlt, back |-> NoAlt]

InitXcVars ==
    \E k \in CipherKeys, n \in TunnelNonces, orig \in Plaintexts :
        xc = [NoXc EXCEPT !.k = k, !.n = n, !.orig = orig,
                          !.buff = BufferOf(orig)]

\* the buffer is ciphered in place
XcInPlace ==
    LET r == xchacha20(xc.buff, xc.k, xc.n)
    IN  /\ xc.applied < 2
        /\ r.ret
        /\ xc' = [xc EXCEPT !.buff = r.buff, !.applied = @ + 1,
                            !.once = IF xc.applied = 0 THEN r.buff.base ELSE @]
        /\ UNCHANGED <<dhVars, edVars, rcVars, codec, hold, sysVars>>

\* the original contents are ciphered into a destination of sz bytes
XcAlt ==
    \E sz \in BufSizes :
        LET r == xchacha20_alt(Destination(sz), BufferOf(xc.orig), xc.k, xc.n)
        IN  /\ ~xc.alt.called
            /\ xc' = [xc EXCEPT
                        !.alt = [called |-> TRUE, ret |-> r.ret,
                                 in |-> BufferOf(xc.orig),
                                 before |-> Destination(sz), out |-> r.out]]
            /\ UNCHANGED <<dhVars, edVars, rcVars, codec, hold, sysVars>>

\* that destination is ciphered into a second one of sz bytes
XcAltBack ==
    \E sz \in BufSizes :
        LET r == xchacha20_alt(Destination(sz), xc.alt.out, xc.k, xc.n)
        IN  /\ xc.alt.called /\ xc.alt.ret
            /\ ~xc.back.called
            /\ xc' = [xc EXCEPT
                        !.back = [called |-> TRUE, ret |-> r.ret,
                                  in |-> xc.alt.out,
                                  before |-> Destination(sz), out |-> r.out]]
            /\ UNCHANGED <<dhVars, edVars, rcVars, codec, hold, sysVars>>

NextXc ==
    \/ XcInPlace
    \/ XcAlt
    \/ XcAltBack

(***************************************************************************)
(* Bencoding (util/bencode.h).  A buffer is a sequence of bytes, a cursor   *)
(* an index into it; a read returns its success, its value and the cursor  *)
(* after it.                                                               *)
(***************************************************************************)
RECURSIVE DecDigits(_)
\* the decimal digits of n, as ASCII
DecDigits(n) ==
    IF n < 10 THEN <<48 + n>> ELSE DecDigits(n \div 10) \o <<48 + (n % 10)>>

\* bencode_write_uint64: i<n>e
bencode_write_uint64(i) == <<105>> \o DecDigits(i) \o <<101>>

\* bencode_write_bytestring: <length>:<bytes>
bencode_write_bytestring(data) == DecDigits(Len(data)) \o <<58>> \o data

\* bencode_start_list, bencode_start_dict, bencode_end
bencode_start_list == <<108>>
bencode_start_dict == <<100>>
bencode_end == <<101>>

IsDigit(b) == b \in 48..57

RECURSIVE ReadDigits(_, _, _)
\* the run of decimal digits at cur (numbers of the model stay far below
\* the width of the machine integer)
ReadDigits(buf, cur, acc) ==
    IF cur <= Len(buf) /\ IsDigit(buf[cur]) /\ acc < 1000000
    THEN ReadDigits(buf, cur + 1, acc * 10 + (buf[cur] - 48))
    ELSE [val |-> acc, cur |-> cur]

\* bencode_read_integer: 'i', digits up to 'e'
bencode_read_integer(buf, cur) ==
    LET d == ReadDigits(buf, cur + 1, 0)
    IN  IF /\ cur <= Len(buf) /\ buf[cur] = 105
           /\ d.cur > cur + 1
           /\ d.cur <= Len(buf) /\ buf[d.cur] = 101
        THEN [ok |-> TRUE, val |-> d.val, cur |-> d.cur + 1]
        ELSE [ok |-> FALSE, val |-> 0, cur |-> cur]

\* bencode_read_string trusting the length prefix
bencode_read_string_unbounded(buf, cur) ==
    LET d == ReadDigits(buf, cur, 0)
    IN  IF /\ d.cur > cur
           /\ d.cur <= Len(buf) /\ buf[d.cur] = 58
        THEN [ok |-> TRUE,
              val |-> SubSeq(buf, d.cur + 1,
                             IF d.cur + d.val <= Len(buf)
                             THEN d.cur + d.val ELSE Len(buf)),
              cur |-> d.cur + d.val + 1]
        ELSE [ok |-> FALSE, val |-> <<>>, cur |-> cur]

\* bencode_read_string: digits, ':', then that many bytes, all inside the
\* buffer
bencode_read_string(buf, cur) ==
    LET d == ReadDigits(buf, cur, 0)
    IN  IF /\ d.cur > cur
           /\ d.cur <= Len(buf) /\ buf[d.cur] = 58
           /\ d.cur + d.val <= Len(buf)
        THEN [ok |-> TRUE, val |-> SubSeq(buf, d.cur + 1, d.cur + d.val),
              cur |-> d.cur + d.val + 1]
        ELSE [ok |-> FALSE, val |-> <<>>, cur |-> cur]

\* a read followed by what is done with its result, or `failed` when the
\* read fails
Then(r, F(_), failed) == IF r.ok THEN F(r) ELSE failed

\* the cursor after a read, 0 when it failed
CursorAfter(r) == IF r.ok THEN r.cur ELSE 0

RECURSIVE bt_skip(_, _), bt_skip_items(_, _), bt_skip_rest(_, _)
\* the cursor after the bencoded value at cur (lokimq bt_list_consumer's
\* skip_value / consume_dict_data), 0 when the value is malformed
bt_skip(buf, cur) ==
    IF cur > Len(buf) THEN 0
    ELSE IF buf[cur] = 105 THEN CursorAfter(bencode_read_integer(buf, cur))
    ELSE IF IsDigit(buf[cur]) THEN CursorAfter(bencode_read_string(buf, cur))
    ELSE IF buf[cur] \in {100, 108} THEN bt_skip_items(buf, cur + 1)
    ELSE 0

bt_skip_items(buf, cur) ==
    IF cur > Len(buf) THEN 0
    ELSE IF buf[cur] = 101 THEN cur + 1
    ELSE bt_skip_rest(buf, bt_skip(buf, cur))

bt_skip_rest(buf, next) == IF next = 0 THEN 0 ELSE bt_skip_items(buf, next)

\* the key of a dictionary entry: a one-byte string
DictKey(c) == bencode_write_bytestring(<<c>>)

\* the bytes of a fixed-size buffer up to its first NUL (NetID::ToString,
\* RouterContact::Nick)
UntilNul(b) ==
    IF \E k \in 1..Len(b) : b[k] = 0
    THEN SubSeq(b, 1, (CHOOSE k \in 1..Len(b) :
                          b[k] = 0 /\ \A j \in 1..(k - 1) : b[j] # 0) - 1)
    ELSE b

\* a fixed-size buffer zeroed and then filled from the front
ZeroPadded(s, n) == [k \in 1..n |-> IF k <= Len(s) THEN s[k] ELSE 0]

(***************************************************************************)
(* The router contact (router_contact.hpp; the member functions are        *)
(* defined in router_contact.cpp).  NetID and the nickname are fixed-size  *)
(* buffers scaled like the keys; an address is (ip, port) with ip the      *)
(* first and last octet.                                                   *)
(***************************************************************************)
MAX_RC_SIZE == 1024
NICKLEN == Len(ZeroBuf)
CURRENT_RC_VERSION == 1

\* RouterContact::Lifetime, a process-wide policy value, in ticks of the clock
Lifetime == 2

ZeroSig == ZeroBuf \o ZeroBuf

\* NetID::DefaultValue(): "lokinet"
NetID_DefaultValue == <<108, 0>>

\* NetID::BEncode: the bytes up to the first NUL
NetID_BEncode(id) == bencode_write_bytestring(UntilNul(id))

\* NetID::BDecode
NetID_BDecode(buf, cur) ==
    Then(bencode_read_string(buf, cur),
         LAMBDA r : IF Len(r.val) <= Len(ZeroBuf)
                    THEN [r EXCEPT !.val = ZeroPadded(r.val, Len(ZeroBuf))]
                    ELSE [ok |-> FALSE, val |-> ZeroBuf, cur |-> cur],
         [ok |-> FALSE, val |-> ZeroBuf, cur |-> cur])

\* IsBogon: addresses of the unspecified, private and loopback ranges
IsBogon(ip) == ip[1] \in {0, 10, 127}

\* the text form of an address (inet_ntop) and its parse (inet_pton)
inet_ntop(ip) == DecDigits(ip[1]) \o <<46>> \o DecDigits(ip[2])

inet_pton_octets(s, a, b) ==
    IF /\ a.cur > 1 /\ a.cur <= Len(s) /\ s[a.cur] = 46
       /\ b.cur > a.cur + 1 /\ b.cur = Len(s) + 1
       /\ a.val <= 255 /\ b.val <= 255
    THEN [ok |-> TRUE, ip |-> <<a.val, b.val>>]
    ELSE [ok |-> FALSE, ip |-> ZeroBuf]

inet_pton_first(s, a) == inet_pton_octets(s, a, ReadDigits(s, a.cur + 1, 0))

inet_pton(s) == inet_pton_first(s, ReadDigits(s, 1, 0))

\* AddressInfo::BEncode: a dictionary with the address "i" and the port "p"
AddressInfo_BEncode(a) ==
    bencode_start_dict
    \o DictKey(105) \o bencode_write_bytestring(inet_ntop(a.ip))
    \o DictKey(112) \o bencode_write_uint64(a.port)
    \o bencode_end

NoAddress == [ip |-> ZeroBuf, port |-> 0]

\* AddressInfo::DecodeKey: the value of entry `key` at cur
AddressInfo_DecodeKey(a, key, buf, cur) ==
    LET fail == [ok |-> FALSE, val |-> a, cur |-> cur]
    IN  CASE key = <<105>> ->
               Then(bencode_read_string(buf, cur),
                    LAMBDA s : Then(inet_pton(s.val),
                                    LAMBDA p : [ok |-> TRUE,
                                                val |-> [a EXCEPT !.ip = p.ip],
                                                cur |-> s.cur],
                                    fail),
                    fail)
          [] key = <<112>> ->
               Then(bencode_read_integer(buf, cur),
                    LAMBDA n : [n EXCEPT !.val = [a EXCEPT !.port = n.val]],
                    fail)
          [] OTHER -> fail

RECURSIVE AddressInfo_DecodeEntries(_, _, _)
\* the entries of the dictionary up to its 'e', each through DecodeKey
AddressInfo_DecodeEntries(a, buf, cur) ==
    IF cur > Len(buf) THEN [ok |-> FALSE, val |-> a, cur |-> cur]
    ELSE IF buf[cur] = 101 THEN [ok |-> TRUE, val |-> a, cur |-> cur + 1]
    ELSE Then(bencode_read_string(buf, cur),
              LAMBDA k : Then(AddressInfo_DecodeKey(a, k.val, buf, k.cur),
                              LAMBDA v : AddressInfo_DecodeEntries(v.val, buf, v.cur),
                              [ok |-> FALSE, val |-> a, cur |-> cur]),
              [ok |-> FALSE, val |-> a, cur |-> cur])

\* AddressInfo::BDecode
AddressInfo_BDecode(buf, cur) ==
    IF cur <= Len(buf) /\ buf[cur] = 100
    THEN AddressInfo_DecodeEntries(NoAddress, buf, cur + 1)
    ELSE [ok |-> FALSE, val |-> NoAddress, cur |-> cur]

RECURSIVE BEncodeWriteListItems(_)
BEncodeWriteListItems(addrs) ==
    IF addrs = <<>> THEN <<>>
    ELSE AddressInfo_BEncode(Head(addrs)) \o BEncodeWriteListItems(Tail(addrs))

\* BEncodeWriteList: 'l', the items in order, 'e'
BEncodeWriteList(addrs) ==
    bencode_start_list \o BEncodeWriteListItems(addrs) \o bencode_end

RECURSIVE BEncodeReadListItems(_, _, _)
\* BEncodeReadList: the items of the list up to its 'e'
BEncodeReadListItems(acc, buf, cur) ==
    IF cur > Len(buf) THEN [ok |-> FALSE, val |-> acc, cur |-> cur]
    ELSE IF buf[cur] = 101 THEN [ok |-> TRUE, val |-> acc, cur |-> cur + 1]
    ELSE Then(AddressInfo_BDecode(buf, cur),
              LAMBDA a : BEncodeReadListItems(Append(acc, a.val), buf, a.cur),
              [ok |-> FALSE, val |-> acc, cur |-> cur])

BEncodeReadList(buf, cur) ==
    IF cur <= Len(buf) /\ buf[cur] = 108
    THEN BEncodeReadListItems(<<>>, buf, cur + 1)
    ELSE [ok |-> FALSE, val |-> <<>>, cur |-> cur]

\* std::optional<RouterVersion>: <<>> when absent, else <<v>> with v the
\* list <<proto, major, minor, patch>> (or the empty version <<>>)
NoRouterVersion == <<>>

RECURSIVE WriteIntList(_)
WriteIntList(v) ==
    IF v = <<>> THEN <<>> ELSE bencode_write_uint64(Head(v)) \o WriteIntList(Tail(v))

\* RouterVersion::BEncode
RouterVersion_BEncode(v) == bencode_start_list \o WriteIntList(v) \o bencode_end

RECURSIVE ReadIntList(_, _, _)
ReadIntList(acc, buf, cur) ==
    IF cur > Len(buf) THEN [ok |-> FALSE, val |-> acc, cur |-> cur]
    ELSE IF buf[cur] = 101 THEN [ok |-> TRUE, val |-> acc, cur |-> cur + 1]
    ELSE Then(bencode_read_integer(buf, cur),
              LAMBDA n : IF Len(acc) < 4
                         THEN ReadIntList(Append(acc, n.val), buf, n.cur)
                         ELSE [ok |-> FALSE, val |-> acc, cur |-> cur],
              [ok |-> FALSE, val |-> acc, cur |-> cur])

\* RouterVersion::BDecode: the full list or the empty list
RouterVersion_BDecode(buf, cur) ==
    IF cur <= Len(buf) /\ buf[cur] = 108
    THEN Then(ReadIntList(<<>>, buf, cur + 1),
              LAMBDA r : IF Len(r.val) \in {0, 4} THEN r
                         ELSE [ok |-> FALSE, val |-> <<>>, cur |-> cur],
              [ok |-> FALSE, val |-> <<>>, cur |-> cur])
    ELSE [ok |-> FALSE, val |-> <<>>, cur |-> cur]

\* RouterContact(): the default member values, then Clear()
NewRouterContact ==
    [addrs |-> <<>>, netID |-> NetID_DefaultValue, enckey |-> ZeroBuf,
     pubkey |-> ZeroBuf, signature |-> ZeroSig, nickname |-> ZeroBuf,
     last_updated |-> 0, version |-> CURRENT_RC_VERSION,
     routerVersion |-> NoRouterVersion, signed_bt_dict |-> <<>>]

\* RouterContact::Clear
Clear(rc) ==
    [rc EXCEPT !.addrs = <<>>, !.signature = ZeroSig, !.nickname = ZeroBuf,
               !.enckey = ZeroBuf, !.pubkey = ZeroBuf,
               !.routerVersion = NoRouterVersion, !.last_updated = 0]

\* operator== comparing the format version as well
Equals_with_version(rc, other) ==
    /\ rc.addrs = other.addrs /\ rc.enckey = other.enckey
    /\ rc.pubkey = other.pubkey /\ rc.signature = other.signature
    /\ rc.nickname = other.nickname /\ rc.last_updated = other.last_updated
    /\ rc.netID = other.netID /\ rc.version = other.version

\* RouterContact::operator==
Equals(rc, other) ==
    /\ rc.addrs = other.addrs /\ rc.enckey = other.enckey
    /\ rc.pubkey = other.pubkey /\ rc.signature = other.signature
    /\ rc.nickname = other.nickname /\ rc.last_updated = other.last_updated
    /\ rc.netID = other.netID

\* RouterContact::operator!=
NotEquals(rc, other) == ~Equals(rc, other)

\* OtherIsNewer accepting an equal timestamp
OtherIsNewer_or_equal(rc, other) == rc.last_updated <= other.last_updated

\* RouterContact::OtherIsNewer
OtherIsNewer(rc, other) == rc.last_updated < other.last_updated

\* RouterContact::Nick
Nick(rc) == UntilNul(rc.nickname)

\* RouterContact::BEncodeSignedSection: the dictionary of the fields, keys
\* in sorted order; version 0 carries the signature inside it
BEncodeSignedSection(rc) ==
    bencode_start_dict
    \o DictKey(97) \o BEncodeWriteList(rc.addrs)
    \o DictKey(105) \o NetID_BEncode(rc.netID)
    \o DictKey(107) \o bencode_write_bytestring(rc.pubkey)
    \o (IF Nick(rc) # <<>>
        THEN DictKey(110) \o bencode_write_bytestring(Nick(rc)) ELSE <<>>)
    \o DictKey(112) \o bencode_write_bytestring(rc.enckey)
    \o (IF rc.routerVersion # NoRouterVersion
        THEN DictKey(114) \o RouterVersion_BEncode(rc.routerVersion[1]) ELSE <<>>)
    \o DictKey(117) \o bencode_write_uint64(rc.last_updated)
    \o DictKey(118) \o bencode_write_uint64(rc.version)
    \o (IF rc.version = 0
        THEN DictKey(122) \o bencode_write_bytestring(rc.signature) ELSE <<>>)
    \o bencode_end

\* BEncode writing the signed bytes the contact retains in place of the
\* signed section of its fields
BEncode_retained(rc) ==
    LET out == bencode_start_list \o bencode_write_uint64(CURRENT_RC_VERSION)
               \o bencode_write_bytestring(rc.signature)
               \o rc.signed_bt_dict \o bencode_end
    IN  IF Len(out) <= MAX_RC_SIZE
        THEN [ok |-> TRUE, buf |-> out]
        ELSE [ok |-> FALSE, buf |-> <<>>]

\* RouterContact::BEncode into a buffer of MAX_RC_SIZE bytes: always the
\* current version, the ordered list of the version tag, the signature and
\* the signed section of the fields
BEncode(rc) ==
    LET out == bencode_start_list \o bencode_write_uint64(CURRENT_RC_VERSION)
               \o bencode_write_bytestring(rc.signature)
               \o BEncodeSignedSection(rc) \o bencode_end
    IN  IF Len(out) <= MAX_RC_SIZE
        THEN [ok |-> TRUE, buf |-> out]
        ELSE [ok |-> FALSE, buf |-> <<>>]

\* bencode_discard: an entry no key claims is passed over, `next` the cursor
\* after its value (0: malformed)
bencode_discard(rc, cur, next) ==
    IF next = 0 THEN [ok |-> FALSE, val |-> rc, cur |-> cur]
    ELSE [ok |-> TRUE, val |-> rc, cur |-> next]

\* RouterContact::DecodeKey: the value of entry `key` at cur
DecodeKey(rc, key, buf, cur) ==
    LET fail == [ok |-> FALSE, val |-> rc, cur |-> cur]
    IN  CASE key = <<97>> ->
               Then(BEncodeReadList(buf, cur),
                    LAMBDA l : [l EXCEPT !.val = [rc EXCEPT !.addrs = l.val]],
                    fail)
          [] key = <<105>> ->
               Then(NetID_BDecode(buf, cur),
                    LAMBDA i : [i EXCEPT !.val = [rc EXCEPT !.netID = i.val]],
                    fail)
          [] key = <<107>> ->
               Then(bencode_read_string(buf, cur),
                    LAMBDA s : IF Len(s.val) = Len(ZeroBuf)
                               THEN [s EXCEPT !.val = [rc EXCEPT !.pubkey = s.val]]
                               ELSE fail,
                    fail)
          [] key = <<110>> ->
               Then(bencode_read_string(buf, cur),
                    LAMBDA s : IF Len(s.val) <= NICKLEN
                               THEN [s EXCEPT !.val =
                                       [rc EXCEPT !.nickname =
                                                    ZeroPadded(s.val, NICKLEN)]]
                               ELSE fail,
                    fail)
          [] key = <<112>> ->
               Then(bencode_read_string(buf, cur),
                    LAMBDA s : IF Len(s.val) = Len(ZeroBuf)
                               THEN [s EXCEPT !.val = [rc EXCEPT !.enckey = s.val]]
                               ELSE fail,
                    fail)
          [] key = <<114>> ->
               Then(RouterVersion_BDecode(buf, cur),
                    LAMBDA r : [r EXCEPT !.val =
                                  [rc EXCEPT !.routerVersion = <<r.val>>]],
                    fail)
          [] key = <<117>> ->
               Then(bencode_read_integer(buf, cur),
                    LAMBDA n : [n EXCEPT !.val = [rc EXCEPT !.last_updated = n.val]],
                    fail)
          [] key = <<118>> ->
               Then(bencode_read_integer(buf, cur),
                    LAMBDA n : [n EXCEPT !.val = [rc EXCEPT !.version = n.val]],
                    fail)
          [] key = <<122>> ->
               Then(bencode_read_string(buf, cur),
                    LAMBDA s : IF Len(s.val) = Len(ZeroSig)
                               THEN [s EXCEPT !.val = [rc EXCEPT !.signature = s.val]]
                               ELSE fail,
                    fail)
          [] OTHER -> bencode_discard(rc, cur, bt_skip(buf, cur))

RECURSIVE DecodeEntries(_, _, _)
\* the entries of the dictionary up to its 'e', each through DecodeKey
DecodeEntries(rc, buf, cur) ==
    IF cur > Len(buf) THEN [ok |-> FALSE, val |-> rc, cur |-> cur]
    ELSE IF buf[cur] = 101 THEN [ok |-> TRUE, val |-> rc, cur |-> cur + 1]
    ELSE Then(bencode_read_string(buf, cur),
              LAMBDA k : Then(DecodeKey(rc, k.val, buf, k.cur),
                              LAMBDA v : DecodeEntries(v.val, buf, v.cur),
                              [ok |-> FALSE, val |-> rc, cur |-> cur]),
              [ok |-> FALSE, val |-> rc, cur |-> cur])

\* bencode_decode_dict(rc, buf)
bencode_decode_dict(rc, buf, cur) ==
    IF cur + 1 <= Len(buf) /\ buf[cur] = 100
    THEN DecodeEntries(rc, buf, cur + 1)
    ELSE [ok |-> FALSE, val |-> rc, cur |-> cur]

\* RouterContact::DecodeVersion_0: the whole buffer is retained and decoded
\* as the dictionary
DecodeVersion_0(rc, buf) ==
    bencode_decode_dict([rc EXCEPT !.signed_bt_dict = buf], buf, 1)

\* DecodeVersion_1 once the signature string `sig` is consumed and the signed
\* dictionary is found to end before `end` (0: no dictionary there)
DecodeVersion_1_dict(rc, buf, sig, end) ==
    IF end = 0 THEN [ok |-> FALSE, val |-> rc, cur |-> sig.cur]
    ELSE IF ~(end <= Len(buf) /\ buf[end] = 101) \/ Len(sig.val) # Len(ZeroSig)
    THEN [ok |-> FALSE,
          val |-> [rc EXCEPT !.signed_bt_dict = SubSeq(buf, sig.cur, end - 1)],
          cur |-> sig.cur]
    ELSE bencode_decode_dict(
             [rc EXCEPT !.signed_bt_dict = SubSeq(buf, sig.cur, end - 1),
                        !.signature = sig.val],
             SubSeq(buf, sig.cur, end - 1), 1)

\* RouterContact::DecodeVersion_1, the cursor after the version tag: the
\* signature, then the signed dictionary, retained as it stands and decoded
DecodeVersion_1(rc, buf, cur) ==
    Then(bencode_read_string(buf, cur),
         LAMBDA sig : DecodeVersion_1_dict(
                          rc, buf, sig,
                          IF sig.cur <= Len(buf) /\ buf[sig.cur] = 100
                          THEN bt_skip(buf, sig.cur) ELSE 0),
         [ok |-> FALSE, val |-> rc, cur |-> cur])

\* what BDecode leaves: its return value and the instance
Decoded(r) == [ok |-> r.ok, rc |-> r.val]

RECURSIVE DictFind(_, _, _), DictFindAfter(_, _, _)
\* the cursor of the value of entry `key` among the dictionary entries at
\* cur, 0 when there is none
DictFind(buf, cur, key) ==
    IF cur = 0 \/ cur > Len(buf) THEN 0
    ELSE IF buf[cur] = 101 THEN 0
    ELSE DictFindAfter(buf, bencode_read_string(buf, cur), key)

DictFindAfter(buf, k, key) ==
    IF ~k.ok THEN 0
    ELSE IF k.val = key THEN k.cur
    ELSE DictFind(buf, bt_skip(buf, k.cur), key)

\* BDecode taking the layout from the first byte: a dictionary is decoded
\* whatever its entry "v" holds
BDecode_by_layout(rc, buf) ==
    IF buf = <<>> THEN [ok |-> FALSE, rc |-> Clear(rc)]
    ELSE IF buf[1] = 100 THEN Decoded(DecodeVersion_0(Clear(rc), buf))
    ELSE IF buf[1] # 108 THEN [ok |-> FALSE, rc |-> Clear(rc)]
    ELSE Then(bencode_read_integer(buf, 2),
              LAMBDA tag : IF tag.val = 1
                           THEN Decoded(DecodeVersion_1(Clear(rc), buf, tag.cur))
                           ELSE [ok |-> FALSE, rc |-> Clear(rc)],
              [ok |-> FALSE, rc |-> Clear(rc)])

\* RouterContact::BDecode: Clear(), then the version tag is read before
\* anything else, the head of a list or the entry "v" of a dictionary, and
\* names the layout: 0 the dictionary, 1 the list; bytes with any other
\* tag, with none, or in the layout of the other tag are refused
BDecode(rc, buf) ==
    IF buf = <<>> THEN [ok |-> FALSE, rc |-> Clear(rc)]
    ELSE IF buf[1] = 100
    THEN IF DictFind(buf, 2, <<118>>) = 0 THEN [ok |-> FALSE, rc |-> Clear(rc)]
         ELSE Then(bencode_read_integer(buf, DictFind(buf, 2, <<118>>)),
                   LAMBDA tag : IF tag.val = 0
                                THEN Decoded(DecodeVersion_0(Clear(rc), buf))
                                ELSE [ok |-> FALSE, rc |-> Clear(rc)],
                   [ok |-> FALSE, rc |-> Clear(rc)])
    ELSE IF buf[1] # 108 THEN [ok |-> FALSE, rc |-> Clear(rc)]
    ELSE Then(bencode_read_integer(buf, 2),
              LAMBDA tag : IF tag.val = CURRENT_RC_VERSION
                           THEN Decoded(DecodeVersion_1(Clear(rc), buf, tag.cur))
                           ELSE [ok |-> FALSE, rc |-> Clear(rc)],
              [ok |-> FALSE, rc |-> Clear(rc)])

\* RouterContact::Sign at time_now_ms() = now
Sign(rc, secret, now) ==
    LET r1 == [rc EXCEPT !.pubkey = seckey_topublic(secret),
                         !.signature = ZeroSig, !.last_updated = now]
        buf == BEncodeSignedSection(r1)
        r2 == [r1 EXCEPT !.signed_bt_dict = buf]
        s == sign(secret, buf)
    IN  IF Len(buf) > MAX_RC_SIZE THEN [ret |-> FALSE, rc |-> r1]
        ELSE IF r2.version \in {0, 1}
        THEN [ret |-> s.ret, rc |-> [r2 EXCEPT !.signature = s.sig]]
        ELSE [ret |-> FALSE, rc |-> r2]

\* RouterContact::VerifySignature: version 0 encodes the signed section of
\* a copy with the signature zeroed, version 1 takes the retained signed
\* bytes
VerifySignature(rc) ==
    IF rc.version = 0
    THEN LET copy == BEncodeSignedSection([rc EXCEPT !.signature = ZeroSig])
         IN  Len(copy) <= MAX_RC_SIZE /\ verify(rc.pubkey, copy, rc.signature)
    ELSE IF rc.version = 1
    THEN verify(rc.pubkey, rc.signed_bt_dict, rc.signature)
    ELSE FALSE

\* RouterContact::Age
Age(rc, now) == IF now > rc.last_updated THEN now - rc.last_updated ELSE 0

\* IsExpired one tick late
IsExpired_late(rc, now) == Age(rc, now) > Lifetime

\* RouterContact::IsExpired
IsExpired(rc, now) == Age(rc, now) >= Lifetime

\* TimeUntilExpires without the floor at zero
TimeUntilExpires_unfloored(rc, now) == (rc.last_updated + Lifetime) - now

\* RouterContact::TimeUntilExpires: the time left, 0 once expired
TimeUntilExpires(rc, now) ==
    IF now < rc.last_updated + Lifetime
    THEN (rc.last_updated + Lifetime) - now
    ELSE 0

\* RouterContact::ExpiresSoon; the declared default of dlt is one minute
ExpiresSoon(rc, now, dlt) == TimeUntilExpires(rc, now) <= dlt

\* Verify without the check of the advertised addresses
Verify_any_address(rc, now, allowExpired, BlockBogons) ==
    /\ rc.netID = NetID_DefaultValue
    /\ IsExpired(rc, now) => allowExpired
    /\ VerifySignature(rc)

\* RouterContact::Verify under the process-wide BlockBogons
Verify(rc, now, allowExpired, BlockBogons) ==
    /\ rc.netID = NetID_DefaultValue
    /\ IsExpired(rc, now) => allowExpired
    /\ \A k \in 1..Len(rc.addrs) : ~(IsBogon(rc.addrs[k].ip) /\ BlockBogons)
    /\ VerifySignature(rc)

\* the binding with the expiry check asked for
RouterContact_Verify_strict(rc, now, BlockBogons) ==
    Verify(rc, now, FALSE, BlockBogons)

\* the Verify of the scripting binding (pybind RouterContact_Init): the flag
\* is left to its declared default, allowExpired = true
RouterContact_Verify(rc, now, BlockBogons) == Verify(rc, now, TRUE, BlockBogons)

(***************************************************************************)
(* The router contact: the harness.  A signer builds, signs and encodes    *)
(* its contact; a peer decodes it into an instance of its own; either      *)
(* instance may have a field written directly and may be verified.         *)
(***************************************************************************)
Instances == {"local", "peer"}
Nows == 1..MaxNow
SignNows == 1..MaxSignNow
PublicAddr == [ip |-> <<8, 8>>, port |-> 1090]
BogonAddr == [ip |-> <<10, 1>>, port |-> 1090]
AddrLists == {<<PublicAddr>>, <<BogonAddr>>}
NetIDs == {NetID_DefaultValue, <<103, 0>>}
EncKeys == {seckey_topublic(encryption_keygen(RandomBuf(k))) : k \in 0..1}
Nicknames == {<<97, 0>>, <<98, 0>>}
IdentityKeys == {identity_keygen(seed) : seed \in Seeds}
SignedFieldNames ==
    {"addrs", "netID", "enckey", "pubkey", "nickname", "last_updated"}

\* the values a direct write may give a field
FieldValues(f) ==
    CASE f = "addrs" -> AddrLists
      [] f = "netID" -> NetIDs
      [] f = "enckey" -> EncKeys
      [] f = "pubkey" -> {seckey_topublic(k) : k \in IdentityKeys}
      [] f = "nickname" -> Nicknames
      [] f = "last_updated" -> 0..MaxNow

\* the fields the signature covers, as values
SignedFields(rc) == [f \in SignedFieldNames |-> rc[f]]
NoFields == <<>>

NoWire == [buf |-> <<>>, signed |-> NoFields]
NoRcVer == [called |-> FALSE, inst |-> "local", now |-> 0, allowExpired |-> FALSE,
            BlockBogons |-> FALSE, byBinding |-> FALSE, ok |-> FALSE]

InitRcVars ==
    /\ \E a \in AddrLists, i \in NetIDs, n \in {ZeroBuf, <<97, 0>>}, v \in {0, 1} :
         rcs = [local |-> [NewRouterContact EXCEPT
                             !.addrs = a, !.netID = i, !.nickname = n,
                             !.version = v,
                             !.enckey = seckey_topublic(
                                            encryption_keygen(RandomBuf(0)))],
                peer |-> NewRouterContact]
    /\ rcSigned = [i \in Instances |-> NoFields]
    /\ wire = NoWire
    /\ rcVer = NoRcVer

\* an instance carries a signature and its signed fields are as signed
InSync(i) == rcSigned[i] # NoFields /\ SignedFields(rcs[i]) = rcSigned[i]

\* the signer signs the contact it has built
RcSign ==
    \E secret \in IdentityKeys, now \in SignNows :
        LET r == Sign(rcs["local"], secret, now)
        IN  /\ ~rcVer.called
            /\ rcSigned["local"] = NoFields
            /\ rcs' = [rcs EXCEPT !["local"] = r.rc]
            /\ rcSigned' = [rcSigned EXCEPT
                             !["local"] = IF r.ret THEN SignedFields(r.rc) ELSE @]
            /\ UNCHANGED <<wire, rcVer, dhVars, edVars, dataVars, sysVars>>

\* a field of a signed or decoded instance is written without re-signing
RcSetField ==
    \E i \in Instances, f \in SignedFieldNames :
        \E v \in FieldValues(f) :
            /\ ~rcVer.called
            /\ InSync(i)
            /\ \A j \in Instances : rcSigned[j] # NoFields => InSync(j)
            /\ v # rcs[i][f]
            /\ rcs' = [rcs EXCEPT ![i][f] = v]
            /\ UNCHANGED <<rcSigned, wire, rcVer, dhVars, edVars, dataVars, sysVars>>

\* the signer encodes its contact for publication
RcEncode ==
    LET r == BEncode(rcs["local"])
    IN  /\ ~rcVer.called
        /\ r.ok
        /\ wire' = [buf |-> r.buf, signed |-> rcSigned["local"]]
        /\ UNCHANGED <<rcs, rcSigned, rcVer, dhVars, edVars, dataVars, sysVars>>

\* the peer decodes the published contact into its own instance
RcDecode ==
    /\ ~rcVer.called
    /\ wire # NoWire
    /\ LET r == BDecode(rcs["peer"], wire.buf)
       IN  /\ rcs' = [rcs EXCEPT !["peer"] = r.rc]
           /\ rcSigned' = [rcSigned EXCEPT
                            !["peer"] = IF r.ok THEN wire.signed ELSE NoFields]
    /\ UNCHANGED <<wire, rcVer, dhVars, edVars, dataVars, sysVars>>

\* an instance is verified
RcVerify ==
    \E i \in Instances, now \in Nows, allowExpired \in BOOLEAN, bb \in BOOLEAN :
        /\ ~rcVer.called
        /\ rcVer' = [called |-> TRUE, inst |-> i, now |-> now,
                     allowExpired |-> allowExpired, BlockBogons |-> bb,
                     byBinding |-> FALSE,
                     ok |-> Verify(rcs[i], now, allowExpired, bb)]
        /\ UNCHANGED <<rcs, rcSigned, wire, dhVars, edVars, dataVars, sysVars>>

\* the scripting binding verifies the instance it holds, which it can only
\* have read, at the clock's reading and with no flag
RcPyVerify ==
    \E i \in {"peer"}, now \in Nows, bb \in BOOLEAN :
        /\ ~rcVer.called
        /\ rcVer' = [called |-> TRUE, inst |-> i, now |-> now,
                     allowExpired |-> TRUE, BlockBogons |-> bb,
                     byBinding |-> TRUE,
                     ok |-> RouterContact_Verify(rcs[i], now, bb)]
        /\ UNCHANGED <<rcs, rcSigned, wire, dhVars, edVars, dataVars, sysVars>>

\* the caller takes the outcome: the contact is accepted or discarded
RcVerified ==
    /\ rcVer.called
    /\ rcVer' = NoRcVer
    /\ UNCHANGED <<rcs, rcSigned, wire, dhVars, edVars, dataVars, sysVars>>

NextRC ==
    \/ RcSign
    \/ RcSetField
    \/ RcEncode
    \/ RcDecode
    \/ RcVerify
    \/ RcPyVerify
    \/ RcVerified

(***************************************************************************)
(* The router contact on the wire.  A contact is built, perhaps signed,    *)
(* and encoded, by BEncode or as a release that wrote version 0 encoded    *)
(* it; the bytes, as they are or with their version tag rewritten, are     *)
(* decoded into a fresh instance, which is encoded again.                  *)
(***************************************************************************)
\* the layout of encoded bytes: 0 the dictionary, 1 the ordered list
Layout(buf) ==
    IF buf # <<>> /\ buf[1] = 100 THEN 0
    ELSE IF buf # <<>> /\ buf[1] = 108 THEN 1
    ELSE -1

\* where the version tag of encoded bytes stands: the head of the list, the
\* entry "v" of the dictionary
TagCursor(buf) == IF Layout(buf) = 1 THEN 2 ELSE DictFind(buf, 2, <<118>>)

\* the version tag of encoded bytes
VersionTag(buf) == bencode_read_integer(buf, TagCursor(buf)).val

\* encoded bytes with the version tag rewritten to t
Retagged(buf, t) ==
    SubSeq(buf, 1, TagCursor(buf) - 1) \o bencode_write_uint64(t)
    \o SubSeq(buf, bencode_read_integer(buf, TagCursor(buf)).cur, Len(buf))

Tags == 0..MaxTag
SomeRouterVersion == <<<<0, 8, 0, 1>>>>
CodecAddrLists == {<<>>, <<PublicAddr>>, <<PublicAddr, BogonAddr>>}

\* the version 0 encoding of a contact: the dictionary of its fields, the
\* signature among them
EncodeVersion_0(rc) ==
    IF Len(BEncodeSignedSection(rc)) <= MAX_RC_SIZE
    THEN [ok |-> TRUE, buf |-> BEncodeSignedSection(rc)]
    ELSE [ok |-> FALSE, buf |-> <<>>]

NoEnc == [called |-> FALSE, ok |-> FALSE, buf |-> <<>>, wrote |-> CURRENT_RC_VERSION,
          retagged |-> FALSE]
NoDec == [called |-> FALSE, ok |-> FALSE, rc |-> NewRouterContact]
NoReEnc == [called |-> FALSE, ok |-> FALSE, buf |-> <<>>]
NoCodec == [rc |-> NewRouterContact, signed |-> FALSE,
            enc |-> NoEnc, dec |-> NoDec, reenc |-> NoReEnc]

InitCodecVars ==
    \E a \in CodecAddrLists, i \in NetIDs, n \in {ZeroBuf, <<97, 0>>},
       v \in {0, 1}, rv \in {NoRouterVersion, SomeRouterVersion} :
        codec = [NoCodec EXCEPT
                   !.rc = [NewRouterContact EXCEPT
                             !.addrs = a, !.netID = i, !.nickname = n,
                             !.version = v, !.routerVersion = rv,
                             !.enckey = seckey_topublic(
                                            encryption_keygen(RandomBuf(0)))]]

\* the contact is signed
CodecSign ==
    \E secret \in IdentityKeys, now \in SignNows :
        LET r == Sign(codec.rc, secret, now)
        IN  /\ ~codec.signed /\ ~codec.enc.called
            /\ r.ret
            /\ codec' = [codec EXCEPT !.rc = r.rc, !.signed = TRUE]
            /\ UNCHANGED <<dhVars, edVars, rcVars, hold, xc, sysVars>>

\* the contact is encoded
CodecEncode ==
    LET r == BEncode(codec.rc)
    IN  /\ ~codec.enc.called
        /\ codec' = [codec EXCEPT
                       !.enc = [called |-> TRUE, ok |-> r.ok, buf |-> r.buf,
                                wrote |-> CURRENT_RC_VERSION,
                                retagged |-> FALSE]]
        /\ UNCHANGED <<dhVars, edVars, rcVars, hold, xc, sysVars>>

\* a version 0 contact reaches the decoder in the encoding of its version
CodecEncodeVersion_0 ==
    LET r == EncodeVersion_0(codec.rc)
    IN  /\ ~codec.enc.called
        /\ codec.rc.version = 0
        /\ codec' = [codec EXCEPT
                       !.enc = [called |-> TRUE, ok |-> r.ok, buf |-> r.buf,
                                wrote |-> 0, retagged |-> FALSE]]
        /\ UNCHANGED <<dhVars, edVars, rcVars, hold, xc, sysVars>>

\* the bytes reach the decoder with another version tag
CodecRetag ==
    \E t \in Tags :
        /\ codec.enc.called /\ codec.enc.ok
        /\ ~codec.enc.retagged /\ ~codec.dec.called
        /\ TagCursor(codec.enc.buf) # 0
        /\ t # VersionTag(codec.enc.buf)
        /\ codec' = [codec EXCEPT !.enc.buf = Retagged(codec.enc.buf, t),
                                  !.enc.retagged = TRUE]
        /\ UNCHANGED <<dhVars, edVars, rcVars, hold, xc, sysVars>>

\* the bytes are decoded into a fresh instance
CodecDecode ==
    LET r == BDecode(NewRouterContact, codec.enc.buf)
    IN  /\ codec.enc.called /\ codec.enc.ok
        /\ ~codec.dec.called
        /\ codec' = [codec EXCEPT
                       !.dec = [called |-> TRUE, ok |-> r.ok, rc |-> r.rc]]
        /\ UNCHANGED <<dhVars, edVars, rcVars, hold, xc, sysVars>>

\* the decoded instance is encoded again
CodecReEncode ==
    LET r == BEncode(codec.dec.rc)
    IN  /\ codec.dec.called /\ codec.dec.ok
        /\ ~codec.reenc.called
        /\ codec' = [codec EXCEPT
                       !.reenc = [called |-> TRUE, ok |-> r.ok, buf |-> r.buf]]
        /\ UNCHANGED <<dhVars, edVars, rcVars, hold, xc, sysVars>>

NextCodec ==
    \/ CodecSign
    \/ CodecEncode
    \/ CodecEncodeVersion_0
    \/ CodecRetag
    \/ CodecDecode
    \/ CodecReEncode

(***************************************************************************)
(* The holder of contacts (routing table / DHT side).  It keeps one        *)
(* contact for a signing key, compares each incoming contact with it,      *)
(* replaces it when OtherIsNewer says so, and asks the time queries of the *)
(* contact it keeps.                                                       *)
(***************************************************************************)
Timestamps == 0..MaxNow
QueryNows == 0..(MaxNow + Lifetime)
Deltas == 0..MaxDelta
HolderKey == seckey_topublic(identity_keygen(RandomBuf(0)))

\* a contact of the held key, last updated at t
ContactAt(t) ==
    [NewRouterContact EXCEPT !.pubkey = HolderKey, !.last_updated = t,
                             !.addrs = <<PublicAddr>>, !.nickname = <<97, 0>>]

\* a contact and the contacts that differ from it in one member
OneMemberApart(c) ==
    {c,
     [c EXCEPT !.addrs = <<BogonAddr>>],
     [c EXCEPT !.enckey = <<1, 1>>],
     [c EXCEPT !.pubkey = seckey_topublic(identity_keygen(RandomBuf(1)))],
     [c EXCEPT !.signature = <<1, 2, 3, 4>>],
     [c EXCEPT !.nickname = <<98, 0>>],
     [c EXCEPT !.netID = <<103, 0>>],
     [c EXCEPT !.version = 0],
     [c EXCEPT !.routerVersion = SomeRouterVersion],
     [c EXCEPT !.signed_bt_dict = <<100, 101>>]}

Incoming == UNION {OneMemberApart(ContactAt(t)) : t \in Timestamps}

NoCompare == [called |-> FALSE, before |-> NewRouterContact,
              other |-> NewRouterContact, newer |-> FALSE, older |-> FALSE,
              eq |-> FALSE, neq |-> FALSE]
NoQuery == [called |-> FALSE, now |-> 0, dlt |-> 0, age |-> 0,
            expired |-> FALSE, until |-> 0, soon |-> FALSE]
NoHold == [held |-> NewRouterContact, seen |-> 0,
           cmp |-> NoCompare, tq |-> NoQuery]

InitHoldVars ==
    \E t \in Timestamps :
        hold = [NoHold EXCEPT !.held = ContactAt(t), !.seen = t]

\* a contact comes in: it is compared with the one held and, when it is of
\* the held key and newer, takes its place
HoldReceive ==
    \E other \in Incoming :
        /\ hold' = [held |-> IF other.pubkey = hold.held.pubkey
                                /\ OtherIsNewer(hold.held, other)
                             THEN other ELSE hold.held,
                    seen |-> IF other.pubkey = hold.held.pubkey
                                /\ other.last_updated > hold.seen
                             THEN other.last_updated ELSE hold.seen,
                    cmp |-> [called |-> TRUE, before |-> hold.held,
                             other |-> other,
                             newer |-> OtherIsNewer(hold.held, other),
                             older |-> OtherIsNewer(other, hold.held),
                             eq |-> Equals(hold.held, other),
                             neq |-> NotEquals(hold.held, other)],
                    tq |-> NoQuery]
        /\ UNCHANGED <<dhVars, edVars, rcVars, codec, xc, sysVars>>

\* the time queries are asked of the contact held
HoldQuery ==
    \E now \in QueryNows, dlt \in Deltas :
        /\ hold' = [hold EXCEPT
                      !.cmp = NoCompare,
                      !.tq = [called |-> TRUE, now |-> now, dlt |-> dlt,
                              age |-> Age(hold.held, now),
                              expired |-> IsExpired(hold.held, now),
                              until |-> TimeUntilExpires(hold.held, now),
                              soon |-> ExpiresSoon(hold.held, now, dlt)]]
        /\ UNCHANGED <<dhVars, edVars, rcVars, codec, xc, sysVars>>

NextHold ==
    \/ HoldReceive
    \/ HoldQuery

(***************************************************************************)
(* Process start and the construction of the provider.  The library is     *)
(* "uninit" until sodium_init has run; the provider exists only once its   *)
(* constructor has returned; an exception nobody catches ends the process. *)
(***************************************************************************)
MaxOps == 2
MaxProviders == 2

ProviderOps ==
    {"dh", "cipher", "hash", "sign", "verify", "derive", "keygen", "kem"}

\* what the first call of sodium_init can answer
SodiumOutcomes == {0, -1}

\* the values of the environment variable AVX2_FORCE_DISABLE
Avx2Env == {"unset", "0", "1"}

\* 0 on success, -1 on failure, 1 when the library is already initialized
sodium_init(lib, outcome) ==
    IF lib = "ready" THEN [ret |-> 1, lib |-> lib]
    ELSE IF outcome = 0 THEN [ret |-> 0, lib |-> "ready"]
    ELSE [ret |-> -1, lib |-> "failed"]

\* a constructor that goes on whatever sodium_init answered
CryptoLibSodium_unchecked(lib, outcome, avx2) ==
    [thrown |-> FALSE,
     lib    |-> sodium_init(lib, outcome).lib,
     ntru   |-> IF avx2 = "1" THEN 1 ELSE 0,
     seeded |-> TRUE]

CryptoLibSodium(lib, outcome, avx2) ==
    IF sodium_init(lib, outcome).ret = -1
    THEN [thrown |-> TRUE,
          lib    |-> sodium_init(lib, outcome).lib,
          ntru   |-> -1,
          seeded |-> FALSE]
    ELSE [thrown |-> FALSE,
          lib    |-> sodium_init(lib, outcome).lib,
          ntru   |-> IF avx2 = "1" THEN 1 ELSE 0,
          seeded |-> TRUE]

InitProcVars ==
    proc = [pc |-> "start", lib |-> "uninit", providers |-> 0,
            ntru |-> -1, seeded |-> FALSE, ops |-> <<>>]

\* main: a nonzero result of Lokinet_INIT is returned at once
ProcMain ==
    /\ proc.pc = "start"
    /\ \E result \in {0, 1} :
          proc' = [proc EXCEPT !.pc = IF result # 0 THEN "exited" ELSE "main"]
    /\ UNCHANGED <<dhVars, edVars, rcVars, dataVars>>
    /\ SysFrame("proc")

\* a provider is constructed; the exception of a failed construction is
\* caught nowhere
ProcConstruct ==
    /\ proc.pc = "main"
    /\ proc.providers < MaxProviders
    /\ \E outcome \in SodiumOutcomes, avx2 \in Avx2Env :
          proc' =
             IF CryptoLibSodium(proc.lib, outcome, avx2).thrown
             THEN [proc EXCEPT
                      !.pc = "fatal",
                      !.lib = CryptoLibSodium(proc.lib, outcome, avx2).lib]
             ELSE [proc EXCEPT
                      !.lib = CryptoLibSodium(proc.lib, outcome, avx2).lib,
                      !.ntru = CryptoLibSodium(proc.lib, outcome, avx2).ntru,
                      !.seeded = TRUE,
                      !.providers = @ + 1]
    /\ UNCHANGED <<dhVars, edVars, rcVars, dataVars>>
    /\ SysFrame("proc")

\* a member function of a constructed provider runs
ProcOp ==
    /\ proc.pc = "main"
    /\ proc.providers > 0
    /\ Len(proc.ops) < MaxOps
    /\ \E op \in ProviderOps : proc' = [proc EXCEPT !.ops = Append(@, op)]
    /\ UNCHANGED <<dhVars, edVars, rcVars, dataVars>>
    /\ SysFrame("proc")

NextProc ==
    \/ ProcMain
    \/ ProcConstruct
    \/ ProcOp

(***************************************************************************)
(* The self-check of an identity key.  A SecretKey is the seed followed by *)
(* the public key.                                                         *)
(***************************************************************************)
\* crypto_sign_ed25519_sk_to_seed: the first half of the buffer
crypto_sign_ed25519_sk_to_seed(sk) == [rc |-> 0, seed |-> SubSeq(sk, 1, 2)]

\* a check that only looks at the answers of the two conversions
check_identity_privkey_unpaired(keys) ==
    crypto_sign_ed25519_sk_to_seed(keys).rc # -1

\* CryptoLibSodium::check_identity_privkey
check_identity_privkey(keys) ==
    IF crypto_sign_ed25519_sk_to_seed(keys).rc = -1 THEN FALSE
    ELSE /\ seckey_topublic(keys)
              = crypto_sign_seed_keypair(
                    crypto_sign_ed25519_sk_to_seed(keys).seed).pk
         /\ crypto_sign_seed_keypair(
                crypto_sign_ed25519_sk_to_seed(keys).seed).sk = keys

\* the values a byte of a stored key may be overwritten with
TamperBytes == {0, 1, 64, 127, 128, 255}

NoCheck == [called |-> FALSE, ret |-> FALSE]

InitKcVars ==
    \E seed \in Seeds :
        kc = [key |-> identity_keygen(seed), origin |-> "keygen",
              check |-> NoCheck, made |-> NoCheck]

KcKeygen ==
    /\ \E seed \in Seeds :
          kc' = [key |-> identity_keygen(seed), origin |-> "keygen",
                 check |-> NoCheck, made |-> NoCheck]
    /\ UNCHANGED <<dhVars, edVars, rcVars, dataVars>>
    /\ SysFrame("kc")

KcFromSeed ==
    /\ \E seed \in Seeds :
          kc' = [key |-> seed_to_secretkey(seed), origin |-> "seed",
                 check |-> NoCheck, made |-> NoCheck]
    /\ UNCHANGED <<dhVars, edVars, rcVars, dataVars>>
    /\ SysFrame("kc")

\* one byte of a generated key is overwritten in storage; `made` keeps the
\* outcome of the check of the key as it was generated
KcTamper ==
    /\ kc.origin \in {"keygen", "seed"}
    /\ \E pos \in 1..4, b \in TamperBytes :
          /\ kc.key[pos] # b
          /\ kc' = [key |-> [kc.key EXCEPT ![pos] = b], origin |-> "stored",
                    check |-> NoCheck, made |-> kc.check]
    /\ UNCHANGED <<dhVars, edVars, rcVars, dataVars>>
    /\ SysFrame("kc")

KcCheck ==
    /\ ~kc.check.called
    /\ kc' = [kc EXCEPT !.check = [called |-> TRUE,
                                   ret |-> check_identity_privkey(kc.key)]]
    /\ UNCHANGED <<dhVars, edVars, rcVars, dataVars>>
    /\ SysFrame("kc")

NextKc ==
    \/ KcKeygen
    \/ KcFromSeed
    \/ KcTamper
    \/ KcCheck

(***************************************************************************)
(* Readers of one signed contact.  Verify, the time queries, OtherIsNewer  *)
(* and operator== are const member functions of a struct without mutable   *)
(* members.  A call reads the members it needs one after the other into    *)
(* the storage of the call and returns what it computes from them; the     *)
(* calls of two readers interleave read by read.                           *)
(***************************************************************************)
Readers == {1, 2}

Queries ==
    {"Verify", "VerifyFresh", "Age", "TimeUntilExpires", "IsExpired",
     "ExpiresSoon", "OtherIsNewer", "Equals"}

\* the contacts read: signed and untouched, signed and then renamed, signed
\* with a bogon address, signed as a version 0 contact
ReadContacts ==
    UNION {{Sign(ContactAt(0), identity_keygen(RandomBuf(0)), t).rc,
            [Sign(ContactAt(0), identity_keygen(RandomBuf(0)), t).rc
                EXCEPT !.nickname = <<98, 0>>],
            Sign([ContactAt(0) EXCEPT !.addrs = <<BogonAddr>>],
                 identity_keygen(RandomBuf(0)), t).rc,
            Sign([ContactAt(0) EXCEPT !.version = 0],
                 identity_keygen(RandomBuf(0)), t).rc} : t \in SignNows}

\* the members of the contact a query reads, in the order it reads them:
\* Verify the netID, the timestamp, the addresses and what the signature
\* check takes; the time queries and OtherIsNewer the timestamp; operator==
\* the members it compares
MembersRead(q) ==
    CASE q \in {"Verify", "VerifyFresh"} ->
            <<"netID", "last_updated", "addrs", "version", "pubkey",
              "signature", "signed_bt_dict", "enckey", "nickname",
              "routerVersion">>
      [] q \in {"Age", "TimeUntilExpires", "IsExpired", "ExpiresSoon",
                "OtherIsNewer"} -> <<"last_updated">>
      [] OTHER ->
            <<"addrs", "enckey", "pubkey", "signature", "nickname",
              "last_updated", "netID">>

\* the value a query computes from the members it has read; `other` is the
\* contact the comparing queries are given
QueryResult(rc, other, q, now) ==
    CASE q = "Verify" -> Verify(rc, now, TRUE, TRUE)
      [] q = "VerifyFresh" -> Verify(rc, now, FALSE, TRUE)
      [] q = "Age" -> Age(rc, now)
      [] q = "TimeUntilExpires" -> TimeUntilExpires(rc, now)
      [] q = "IsExpired" -> IsExpired(rc, now)
      [] q = "ExpiresSoon" -> ExpiresSoon(rc, now, 1)
      [] q = "OtherIsNewer" -> OtherIsNewer(rc, other)
      [] OTHER -> Equals(rc, other)

\* the calls of all readers working in one static buffer
StorageOf_static(r) == 1

\* the storage a call of reader r works in: the automatic variables of the
\* call, its own
StorageOf(r) == r

\* storage nothing was read into
NoMembers == NewRouterContact

IdleReader ==
    [busy |-> FALSE, done |-> FALSE, q |-> "", now |-> 0, read |-> 0,
     met |-> FALSE, ret |-> FALSE]

InitRdVars ==
    \E c \in ReadContacts :
        rd = [rc |-> c, orig |-> c,
              storage |-> [r \in Readers |-> NoMembers],
              call |-> [r \in Readers |-> IdleReader]]

\* the other reader is in the middle of a call
Meets(r) == \E o \in Readers \ {r} : rd.call[o].busy /\ rd.call[o].read > 0

\* reader r enters a query
RdBegin ==
    /\ \E r \in Readers, q \in Queries, now \in Timestamps :
          /\ ~rd.call[r].busy
          /\ rd' = [rd EXCEPT
                      !.storage[StorageOf(r)] = NoMembers,
                      !.call[r] =
                          [busy |-> TRUE, done |-> FALSE, q |-> q, now |-> now,
                           read |-> 0, met |-> FALSE, ret |-> FALSE]]
    /\ UNCHANGED <<dhVars, edVars, rcVars, dataVars>>
    /\ SysFrame("rd")

\* the query of reader r reads the next member it needs
RdRead ==
    /\ \E r \in Readers :
          /\ rd.call[r].busy
          /\ rd.call[r].read < Len(MembersRead(rd.call[r].q))
          /\ rd' = [rd EXCEPT
                      !.storage[StorageOf(r)][
                          MembersRead(rd.call[r].q)[rd.call[r].read + 1]] =
                              rd.rc[MembersRead(rd.call[r].q)[rd.call[r].read + 1]],
                      !.call[r].read = @ + 1,
                      !.call[r].met = @ \/ Meets(r)]
    /\ UNCHANGED <<dhVars, edVars, rcVars, dataVars>>
    /\ SysFrame("rd")

\* the query of reader r returns what it computes from what it has read;
\* the comparing queries were given a copy of the contact with the time of
\* the call as its timestamp
RdEnd ==
    /\ \E r \in Readers :
          /\ rd.call[r].busy
          /\ rd.call[r].read = Len(MembersRead(rd.call[r].q))
          /\ rd' = [rd EXCEPT
                      !.call[r] =
                          [@ EXCEPT
                              !.busy = FALSE,
                              !.done = TRUE,
                              !.ret = QueryResult(
                                          rd.storage[StorageOf(r)],
                                          [rd.orig EXCEPT
                                              !.last_updated = rd.call[r].now],
                                          rd.call[r].q, rd.call[r].now)]]
    /\ UNCHANGED <<dhVars, edVars, rcVars, dataVars>>
    /\ SysFrame("rd")

NextRd ==
    \/ RdBegin
    \/ RdRead
    \/ RdEnd

(***************************************************************************)
(* A contact and its file.  Write is a const member function given only    *)
(* the path: it has no secret key and cannot call Sign; it stores the      *)
(* encoding of the object as it is.  Read decodes what the file holds.     *)
(***************************************************************************)
NoFile == <<>>

\* RouterContact::Write: the encoding goes to the file when it can be opened
Write(rc, file, opened) ==
    IF ~BEncode(rc).ok THEN [ret |-> FALSE, file |-> file]
    ELSE IF ~opened THEN [ret |-> FALSE, file |-> file]
    ELSE [ret |-> TRUE, file |-> BEncode(rc).buf]

\* RouterContact::Read: a missing file and a file longer than MAX_RC_SIZE
\* are refused and leave the object; anything else is decoded
Read(rc, file) ==
    IF file = NoFile THEN [ok |-> FALSE, rc |-> rc]
    ELSE IF Len(file) > MAX_RC_SIZE THEN [ok |-> FALSE, rc |-> rc]
    ELSE BDecode(rc, file)

NoWrite == [called |-> FALSE, ret |-> FALSE, rc |-> NewRouterContact]
NoRead == [called |-> FALSE, ok |-> FALSE, rc |-> NewRouterContact]

InitFsVars ==
    \E addrs \in AddrLists :
        fs = [rc |-> [NewRouterContact EXCEPT
                         !.addrs = addrs,
                         !.enckey = seckey_topublic(
                                        encryption_keygen(RandomBuf(0)))],
              signed |-> FALSE, file |-> NoFile,
              wr |-> NoWrite, rdr |-> NoRead]

FsSign ==
    /\ ~fs.signed /\ ~fs.wr.called
    /\ \E secret \in IdentityKeys, now \in SignNows :
          fs' = [fs EXCEPT !.rc = Sign(fs.rc, secret, now).rc,
                           !.signed = Sign(fs.rc, secret, now).ret]
    /\ UNCHANGED <<dhVars, edVars, rcVars, dataVars>>
    /\ SysFrame("fs")

\* SetNick, or a direct write of the timestamp
FsSetField ==
    /\ ~fs.wr.called
    /\ \E f \in {"nickname", "last_updated"} :
          \E v \in FieldValues(f) :
              /\ fs.rc[f] # v
              /\ fs' = [fs EXCEPT !.rc[f] = v]
    /\ UNCHANGED <<dhVars, edVars, rcVars, dataVars>>
    /\ SysFrame("fs")

\* WriteFile, tried until it succeeds; wr.rc is the object at the time of
\* the call
FsWrite ==
    /\ ~fs.wr.ret
    /\ \E opened \in BOOLEAN :
          fs' = [fs EXCEPT
                   !.file = Write(fs.rc, fs.file, opened).file,
                   !.wr = [called |-> TRUE,
                           ret |-> Write(fs.rc, fs.file, opened).ret,
                           rc |-> fs.rc],
                   !.rdr = NoRead]
    /\ UNCHANGED <<dhVars, edVars, rcVars, dataVars>>
    /\ SysFrame("fs")

\* ReadFile into a newly constructed object
FsRead ==
    /\ ~fs.rdr.called
    /\ fs' = [fs EXCEPT
                !.rdr = [called |-> TRUE,
                         ok |-> Read(NewRouterContact, fs.file).ok,
                         rc |-> Read(NewRouterContact, fs.file).rc]]
    /\ UNCHANGED <<dhVars, edVars, rcVars, dataVars>>
    /\ SysFrame("fs")

NextFs ==
    \/ FsSign
    \/ FsSetField
    \/ FsWrite
    \/ FsRead

(***************************************************************************)
(* Reads from a buffer.  A cursor is an index into the buffer; Len + 1 is  *)
(* the cursor of a buffer read to its end.                                 *)
(***************************************************************************)
MaxBdLen == 3

\* 'i', 'e', '1', ':', 'l', 'x'
BdAlphabet == {105, 101, 49, 58, 108, 120}

\* longer inputs: strings and integers with their framing whole, a length
\* prefix far beyond the bytes that follow, prefixes and integers of more
\* digits than a number may have, a list whole and a list cut short
BdSamples ==
    {<<50, 58, 97, 98>>,
     <<105, 49, 50, 101>>,
     <<49, 50, 51, 52, 53, 54, 55, 58, 120>>,
     <<49, 50, 51, 52, 53, 54, 55, 56, 58, 120>>,
     <<105, 49, 50, 51, 52, 53, 54, 55, 56, 101>>,
     <<108, 105, 49, 101, 49, 58, 120, 101>>,
     <<108, 105, 49, 101, 49, 58, 120>>}

BdBuffers ==
    UNION {[1..n -> BdAlphabet] : n \in 0..MaxBdLen} \cup BdSamples

\* the values written and read back
BdIntegers == {0, 7, 10, 255, 1090, 65535, 9999999}
BdStrings ==
    {<<>>, <<0>>, <<58, 101>>, <<49, 58, 120>>,
     <<1, 2, 3, 4, 5, 6, 7, 8, 9, 10, 11, 12>>}

NoWrote == [kind |-> "none", ival |-> 0, sval |-> <<>>]
NoBdRead ==
    [called |-> FALSE, op |-> "", ok |-> FALSE, ival |-> 0, sval |-> <<>>,
     cur |-> 0]

InitBdVars ==
    \E buf \in BdBuffers :
        \E cur \in 1..(Len(buf) + 1) :
            bd = [buf |-> buf, cur |-> cur, wrote |-> NoWrote,
                  res |-> NoBdRead]

\* bencode_read_integer at the cursor
BdReadInteger ==
    /\ ~bd.res.called
    /\ bd' = [bd EXCEPT !.res =
                 [called |-> TRUE, op |-> "integer",
                  ok |-> bencode_read_integer(bd.buf, bd.cur).ok,
                  ival |-> bencode_read_integer(bd.buf, bd.cur).val,
                  sval |-> <<>>,
                  cur |-> bencode_read_integer(bd.buf, bd.cur).cur]]
    /\ UNCHANGED <<dhVars, edVars, rcVars, dataVars>>
    /\ SysFrame("bd")

\* bencode_read_string at the cursor
BdReadString ==
    /\ ~bd.res.called
    /\ bd' = [bd EXCEPT !.res =
                 [called |-> TRUE, op |-> "string",
                  ok |-> bencode_read_string(bd.buf, bd.cur).ok,
                  ival |-> 0,
                  sval |-> bencode_read_string(bd.buf, bd.cur).val,
                  cur |-> bencode_read_string(bd.buf, bd.cur).cur]]
    /\ UNCHANGED <<dhVars, edVars, rcVars, dataVars>>
    /\ SysFrame("bd")

\* a value of any shape at the cursor is passed over
BdSkip ==
    /\ ~bd.res.called
    /\ bd' = [bd EXCEPT !.res =
                 [called |-> TRUE, op |-> "skip",
                  ok |-> bt_skip(bd.buf, bd.cur) # 0,
                  ival |-> 0, sval |-> <<>>,
                  cur |-> IF bt_skip(bd.buf, bd.cur) # 0
                          THEN bt_skip(bd.buf, bd.cur) ELSE bd.cur]]
    /\ UNCHANGED <<dhVars, edVars, rcVars, dataVars>>
    /\ SysFrame("bd")

\* bencode_write_uint64 into an empty buffer, the cursor put back to its
\* start
BdWriteUint64 ==
    /\ bd.wrote.kind = "none"
    /\ \E i \in BdIntegers :
          bd' = [buf |-> bencode_write_uint64(i), cur |-> 1,
                 wrote |-> [kind |-> "integer", ival |-> i, sval |-> <<>>],
                 res |-> NoBdRead]
    /\ UNCHANGED <<dhVars, edVars, rcVars, dataVars>>
    /\ SysFrame("bd")

\* bencode_write_bytestring into an empty buffer, the cursor put back to its
\* start
BdWriteBytestring ==
    /\ bd.wrote.kind = "none"
    /\ \E data \in BdStrings :
          bd' = [buf |-> bencode_write_bytestring(data), cur |-> 1,
                 wrote |-> [kind |-> "string", ival |-> 0, sval |-> data],
                 res |-> NoBdRead]
    /\ UNCHANGED <<dhVars, edVars, rcVars, dataVars>>
    /\ SysFrame("bd")

NextBd ==
    \/ BdReadInteger
    \/ BdReadString
    \/ BdSkip
    \/ BdWriteUint64
    \/ BdWriteBytestring

(***************************************************************************)
(* The two clampings of a 32-byte value; only its first and its last byte  *)
(* are touched.                                                            *)
(***************************************************************************)
Bytes == 0..255

\* bytes with the bits that clamping clears and sets both set and clear
ByteSample == {0, 7, 8, 63, 64, 127, 128, 191, 192, 248, 255}

\* every first byte with sampled last bytes, every last byte with sampled
\* first bytes
ClampInputs ==
    {<<a, b>> : a \in Bytes, b \in ByteSample}
        \cup {<<a, b>> : a \in ByteSample, b \in Bytes}

InitClVars ==
    \E h \in ClampInputs :
        cl = [h |-> h, called |-> FALSE, inline |-> ZeroBuf, std |-> ZeroBuf,
              again |-> ZeroBuf, clamped |-> FALSE]

\* the value is clamped both ways; the standard clamping is applied once
\* more to its own result, which is_clamped is asked about
ClClamp ==
    /\ ~cl.called
    /\ cl' = [cl EXCEPT
                !.called = TRUE,
                !.inline = derive_subkey_private_clamp(cl.h),
                !.std = clamp_ed25519(cl.h),
                !.again = clamp_ed25519(clamp_ed25519(cl.h)),
                !.clamped = is_clamped(clamp_ed25519(cl.h))]
    /\ UNCHANGED <<dhVars, edVars, rcVars, dataVars>>
    /\ SysFrame("cl")

NextCl ==
    \/ ClClamp

(***************************************************************************)
(* The logic thread: a thread pool of one thread with a bounded job queue, *)
(* and a timer.  A call of _traceLogicCall is two steps, the question      *)
(* whether the queue looks full and the hand-over of the job, and other    *)
(* threads act between the two.  Logic::tick queues one job that, when the *)
(* pool runs it, executes the timer's jobs whose time has come; which jobs *)
(* are due is left open.                                                   *)
(***************************************************************************)
MaxCalls == 3

\* the jobs of Logic::tick that wait in the queue at one time
MaxTicks == 1

\* the sizes Logic::Logic(sz) gives the queue: one the lookahead always
\* reaches, one it does not reach while the queue is empty
QueueSizes == {2, 6}

\* llarp_init_threadpool(1, "llarp-logic", sz): the threads of the pool
PoolThreads == 1

\* the lookahead _traceLogicCall passes to LooksFull
Lookahead == 5

\* what GuessJobLatency may answer, in ms
Latencies == {0, 3}

\* the calls given to the timer directly
MaxTimed == 1

\* the timeouts given to call_later, in ms
Timeouts == {5}

Callers == {"logic", "other"}

\* the job Logic::tick queues, and the job of the call numbered j
TickJob == [tick |-> TRUE, job |-> 0]

CallJob(j) == [tick |-> FALSE, job |-> j]

\* llarp_threadpool::LooksFull: the jobs pending and the lookahead reach the
\* size of the queue
LooksFull(queue, sz, lookahead) == Len(queue) + lookahead >= sz

\* llarp_threadpool_queue_job: refused when the queue is full or the pool
\* takes no more jobs
llarp_threadpool_queue_job(queue, sz, enabled, job) ==
    IF enabled /\ Len(queue) < sz
    THEN [ret |-> TRUE, queue |-> Append(queue, job)]
    ELSE [ret |-> FALSE, queue |-> queue]

\* Logic::can_flush: the caller is the logic thread
can_flush(caller) == caller = "logic"

\* Logic::call_later(timeout, func): llarp_timer_call_func_later
call_later(timer, timeout, job) ==
    timer \cup {[job |-> job, timeout |-> timeout, func |-> FALSE,
                 deferredFunc |-> TRUE, canceled |-> FALSE]}

\* Logic::call_later(const llarp_timeout_job&): llarp_timer_call_later
call_later_job(timer, timeout, job) ==
    timer \cup {[job |-> job, timeout |-> timeout, func |-> TRUE,
                 deferredFunc |-> FALSE, canceled |-> FALSE]}

\* Logic::cancel_call: the timer of that id, if there is one, is marked
cancel_call(timer, id) ==
    {IF t.job = id THEN [t EXCEPT !.canceled = TRUE] ELSE t : t \in timer}

\* Logic::remove_call: the timer of that id, if there is one, loses its
\* handler and is marked
remove_call(timer, id) ==
    {IF t.job = id THEN [t EXCEPT !.func = FALSE, !.canceled = TRUE] ELSE t :
        t \in timer}

\* timer::exec: the handler is called if there is one, the deferred function
\* unless the timer was canceled
ExecRuns(t) == t.func \/ (t.deferredFunc /\ ~t.canceled)

\* _traceLogicCall that always queues
traceLogicCall_undeferred(full, queue, sz, enabled, timer, job, caller, latency) ==
    [ret |-> llarp_threadpool_queue_job(queue, sz, enabled, CallJob(job)).ret,
     queue |->
        llarp_threadpool_queue_job(queue, sz, enabled, CallJob(job)).queue,
     timer |-> timer,
     how |-> IF llarp_threadpool_queue_job(queue, sz, enabled,
                                           CallJob(job)).ret
             THEN "queued" ELSE "dropped",
     delay |-> 0]

\* Logic::_traceLogicCall from the answer `full` of LooksFull on: the queue
\* and the timer are as they are when the job is handed over
traceLogicCall(full, queue, sz, enabled, timer, job, caller, latency) ==
    IF full /\ can_flush(caller)
    THEN [ret |-> TRUE,
          queue |-> queue,
          timer |-> call_later(timer, latency \div 2, job),
          how |-> "deferred",
          delay |-> latency \div 2]
    ELSE [ret |-> llarp_threadpool_queue_job(queue, sz, enabled,
                                             CallJob(job)).ret,
          queue |-> llarp_threadpool_queue_job(queue, sz, enabled,
                                               CallJob(job)).queue,
          timer |-> timer,
          how |-> IF llarp_threadpool_queue_job(queue, sz, enabled,
                                                CallJob(job)).ret
                  THEN "queued" ELSE "dropped",
          delay |-> 0]

\* a thread that is in no operation of Logic
IdleCaller == [pc |-> "idle", job |-> 0, full |-> FALSE]

\* the state after Logic::Logic: the thread is started, its id is known, the
\* job that set it has run.  `calls` has of each call its kind, its answer,
\* what became of it and how often it has run
InitLgVars ==
    \E sz \in QueueSizes :
        lg = [sz |-> sz, queue |-> <<>>, enabled |-> TRUE, timer |-> {},
              run |-> TRUE, hit |-> {}, busy |-> FALSE, running |-> {},
              calls |-> <<>>,
              at |-> [c \in Callers |-> IdleCaller], alive |-> TRUE]

\* a thread may begin an operation: it is in none, and the logic thread
\* acts only through the job it is running, in a tick through a function
\* the tick has executed
MayCall(caller) ==
    /\ lg.alive
    /\ lg.at[caller].pc = "idle"
    /\ caller = "logic" =>
          /\ lg.running # {}
          /\ TickJob \in lg.running => lg.busy

\* the calls given to the timer directly so far
TimedCalls == {j \in 1..Len(lg.calls) : lg.calls[j].kind = "timed"}

\* a thread inside _traceLogicCall that has the answer of LooksFull
Checked(job) ==
    [pc |-> "submit", job |-> job,
     full |-> LooksFull(lg.queue, lg.sz, Lookahead)]

\* _traceLogicCall up to the answer of LooksFull
LgCheck ==
    /\ Len(lg.calls) < MaxCalls
    /\ \E caller \in Callers :
          /\ MayCall(caller)
          /\ lg' = [lg EXCEPT
                !.calls = Append(@, [kind |-> "func", ret |-> FALSE,
                                     how |-> "checking", runs |-> 0]),
                !.at[caller] = Checked(Len(lg.calls) + 1)]
    /\ UNCHANGED <<dhVars, edVars, rcVars, dataVars>>
    /\ SysFrame("lg")

\* _traceLogicCall from the answer of LooksFull on; GuessJobLatency is asked
\* only when the call is deferred.  In Logic::stop the caller goes on to
\* stop the pool
LgSubmit ==
    /\ \E caller \in Callers, latency \in Latencies :
          /\ lg.at[caller].pc = "submit"
          /\ ~(lg.at[caller].full /\ can_flush(caller)) => latency = 0
          /\ lg' = [lg EXCEPT
                !.queue = traceLogicCall(
                             lg.at[caller].full, lg.queue, lg.sz, lg.enabled,
                             lg.timer, lg.at[caller].job, caller,
                             latency).queue,
                !.timer = traceLogicCall(
                             lg.at[caller].full, lg.queue, lg.sz, lg.enabled,
                             lg.timer, lg.at[caller].job, caller,
                             latency).timer,
                !.calls[lg.at[caller].job].ret =
                    traceLogicCall(
                        lg.at[caller].full, lg.queue, lg.sz, lg.enabled,
                        lg.timer, lg.at[caller].job, caller, latency).ret,
                !.calls[lg.at[caller].job].how =
                    traceLogicCall(
                        lg.at[caller].full, lg.queue, lg.sz, lg.enabled,
                        lg.timer, lg.at[caller].job, caller, latency).how,
                !.at[caller] =
                    IF lg.calls[lg.at[caller].job].kind = "timer_stop"
                    THEN [IdleCaller EXCEPT !.pc = "poolstop"]
                    ELSE IdleCaller]
    /\ UNCHANGED <<dhVars, edVars, rcVars, dataVars>>
    /\ SysFrame("lg")

\* Logic::call_later(timeout, func) called directly
LgCallLater ==
    /\ Len(lg.calls) < MaxCalls
    /\ Cardinality(TimedCalls) < MaxTimed
    /\ \E caller \in Callers, timeout \in Timeouts :
          /\ MayCall(caller)
          /\ lg' = [lg EXCEPT
                !.timer = call_later(@, timeout, Len(lg.calls) + 1),
                !.calls = Append(@, [kind |-> "timed", ret |-> TRUE,
                                     how |-> "timer", runs |-> 0])]
    /\ UNCHANGED <<dhVars, edVars, rcVars, dataVars>>
    /\ SysFrame("lg")

\* Logic::call_later(const llarp_timeout_job&)
LgCallLaterJob ==
    /\ Len(lg.calls) < MaxCalls
    /\ Cardinality(TimedCalls) < MaxTimed
    /\ \E caller \in Callers, timeout \in Timeouts :
          /\ MayCall(caller)
          /\ lg' = [lg EXCEPT
                !.timer = call_later_job(@, timeout, Len(lg.calls) + 1),
                !.calls = Append(@, [kind |-> "timed", ret |-> TRUE,
                                     how |-> "timer", runs |-> 0])]
    /\ UNCHANGED <<dhVars, edVars, rcVars, dataVars>>
    /\ SysFrame("lg")

\* Logic::cancel_call with the id of a timer that waits
LgCancel ==
    /\ \E caller \in Callers, t \in lg.timer :
          /\ MayCall(caller)
          /\ ~t.canceled
          /\ lg' = [lg EXCEPT !.timer = cancel_call(@, t.job)]
    /\ UNCHANGED <<dhVars, edVars, rcVars, dataVars>>
    /\ SysFrame("lg")

\* Logic::remove_call with the id of a timer that waits
LgRemove ==
    /\ \E caller \in Callers, t \in lg.timer :
          /\ MayCall(caller)
          /\ t.func \/ ~t.canceled
          /\ lg' = [lg EXCEPT !.timer = remove_call(@, t.job)]
    /\ UNCHANGED <<dhVars, edVars, rcVars, dataVars>>
    /\ SysFrame("lg")

\* Logic::stop up to the answer of LooksFull inside its LogicCall of
\* llarp_timer_stop, by any thread and whether or not the pool still takes
\* jobs
LgStop ==
    /\ Len(lg.calls) < MaxCalls
    /\ \E caller \in Callers :
          /\ MayCall(caller)
          /\ lg' = [lg EXCEPT
                !.calls = Append(@, [kind |-> "timer_stop", ret |-> FALSE,
                                     how |-> "checking", runs |-> 0]),
                !.at[caller] = Checked(Len(lg.calls) + 1)]
    /\ UNCHANGED <<dhVars, edVars, rcVars, dataVars>>
    /\ SysFrame("lg")

\* Logic::stop: llarp_threadpool_stop closes the queue to new jobs, and
\* stop returns
LgPoolStop ==
    /\ \E caller \in Callers :
          /\ lg.at[caller].pc = "poolstop"
          /\ lg' = [lg EXCEPT !.enabled = FALSE, !.at[caller] = IdleCaller]
    /\ UNCHANGED <<dhVars, edVars, rcVars, dataVars>>
    /\ SysFrame("lg")

\* Logic::tick: the job that executes the timers is queued, if the queue
\* takes it
LgTick ==
    /\ lg.alive
    /\ Cardinality({k \in 1..Len(lg.queue) : lg.queue[k] = TickJob}) < MaxTicks
    /\ llarp_threadpool_queue_job(lg.queue, lg.sz, lg.enabled, TickJob).ret
    /\ lg' = [lg EXCEPT
          !.queue = llarp_threadpool_queue_job(@, lg.sz, lg.enabled,
                                               TickJob).queue]
    /\ UNCHANGED <<dhVars, edVars, rcVars, dataVars>>
    /\ SysFrame("lg")

\* a thread of the pool takes the job at the head of the queue; the job of
\* a tick takes out of a running timer the jobs that are due, those
\* canceled among them
LgRun ==
    /\ Cardinality(lg.running) < PoolThreads
    /\ lg.queue # <<>>
    /\ \E due \in SUBSET lg.timer :
          /\ IF Head(lg.queue) = TickJob /\ lg.run
             THEN \A t \in lg.timer : t.canceled => t \in due
             ELSE due = {}
          /\ lg' = [lg EXCEPT
                !.queue = Tail(@),
                !.running = @ \cup {Head(lg.queue)},
                !.timer = IF Head(lg.queue) = TickJob /\ lg.run
                          THEN @ \ due ELSE @,
                !.hit = IF Head(lg.queue) = TickJob /\ lg.run
                        THEN due ELSE @]
    /\ UNCHANGED <<dhVars, edVars, rcVars, dataVars>>
    /\ SysFrame("lg")

\* the job of a tick executes one of the timers it took out; a deferred
\* llarp_timer_stop clears the timer and stops it
LgExec ==
    /\ lg.at["logic"].pc = "idle"
    /\ \E t \in lg.hit :
          lg' = [lg EXCEPT
                !.hit = @ \ {t},
                !.busy = @ \/ ExecRuns(t),
                !.calls[t.job].runs = IF ExecRuns(t) THEN @ + 1 ELSE @,
                !.timer = IF ExecRuns(t) /\ lg.calls[t.job].kind = "timer_stop"
                          THEN {} ELSE @,
                !.run = IF ExecRuns(t) /\ lg.calls[t.job].kind = "timer_stop"
                        THEN FALSE ELSE @]
    /\ UNCHANGED <<dhVars, edVars, rcVars, dataVars>>
    /\ SysFrame("lg")

\* the job the pool's thread is running returns; llarp_timer_stop has
\* cleared the timer and stopped it
LgDone ==
    /\ lg.at["logic"].pc = "idle"
    /\ lg.hit = {}
    /\ \E j \in lg.running :
          lg' = [lg EXCEPT
                !.running = @ \ {j},
                !.busy = FALSE,
                !.calls = IF j = TickJob THEN @
                          ELSE [@ EXCEPT ![j.job].runs = @ + 1],
                !.timer = IF j # TickJob /\ lg.calls[j.job].kind = "timer_stop"
                          THEN {} ELSE @,
                !.run = IF j # TickJob /\ lg.calls[j.job].kind = "timer_stop"
                        THEN FALSE ELSE @]
    /\ UNCHANGED <<dhVars, edVars, rcVars, dataVars>>
    /\ SysFrame("lg")

\* Logic::~Logic, once no thread is inside an operation and the pool's
\* thread is running nothing: the jobs that wait are never run
LgDestroy ==
    /\ lg.alive
    /\ \A c \in Callers : lg.at[c].pc = "idle"
    /\ lg.running = {}
    /\ lg' = [lg EXCEPT !.alive = FALSE, !.queue = <<>>, !.timer = {}]
    /\ UNCHANGED <<dhVars, edVars, rcVars, dataVars>>
    /\ SysFrame("lg")

NextLg ==
    \/ LgCheck
    \/ LgSubmit
    \/ LgCallLater
    \/ LgCallLaterJob
    \/ LgCancel
    \/ LgRemove
    \/ LgStop
    \/ LgPoolStop
    \/ LgTick
    \/ LgRun
    \/ LgExec
    \/ LgDone
    \/ LgDestroy

(***************************************************************************)
(* The registry of option definitions.  m_definitions maps a section to    *)
(* its definitions by name; the two orderings are kept beside it.          *)
(***************************************************************************)
MaxDefs == 3

SectionNames == {"router", "dns"}
OptionNames == {"a", "b"}
OptionDefs ==
    [section : SectionNames, name : OptionNames,
     relayOnly : BOOLEAN, clientOnly : BOOLEAN]

\* the definition m_definitions holds for section and name, if any
Defined(defs, section, name) ==
    section \in DOMAIN defs /\ name \in DOMAIN defs[section]

\* m_definitions.try_emplace(section): an empty map for a section not there
try_emplace_section(defs, section) ==
    IF section \in DOMAIN defs THEN defs
    ELSE [s \in DOMAIN defs \cup {section} |->
             IF s = section THEN <<>> ELSE defs[s]]

\* m_definitions[section].try_emplace(name, def): nothing for a name there
try_emplace_name(defs, section, def) ==
    IF def.name \in DOMAIN defs[section] THEN defs
    ELSE [defs EXCEPT ![section] =
             [n \in DOMAIN defs[section] \cup {def.name} |->
                 IF n = def.name THEN def ELSE defs[section][n]]]

\* m_definitionOrdering[section].push_back(name)
push_definition(ordering, section, name) ==
    [s \in DOMAIN ordering \cup {section} |->
        IF s = section
        THEN (IF s \in DOMAIN ordering THEN ordering[s] ELSE <<>>) \o <<name>>
        ELSE ordering[s]]

\* defineOption for both modes alike
defineOption_unfiltered(r, def) ==
    IF def.name \in DOMAIN try_emplace_section(r.m_definitions,
                                               def.section)[def.section]
    THEN [thrown |-> TRUE,
          reg |-> [r EXCEPT
             !.m_definitions = try_emplace_section(@, def.section),
             !.m_sectionOrdering =
                 IF def.section \in DOMAIN r.m_definitions THEN @
                 ELSE Append(@, def.section)]]
    ELSE [thrown |-> FALSE,
          reg |-> [r EXCEPT
             !.m_definitions =
                 try_emplace_name(try_emplace_section(@, def.section),
                                  def.section, def),
             !.m_sectionOrdering =
                 IF def.section \in DOMAIN r.m_definitions THEN @
                 ELSE Append(@, def.section),
             !.m_definitionOrdering =
                 push_definition(@, def.section, def.name)]]

\* ConfigDefinition::defineOption: a definition the mode excludes is passed
\* over; the section is put in place and, when new, appended to the section
\* ordering; a name already there throws; a new name is appended to the
\* ordering of its section
defineOption(r, def) ==
    IF (IF r.relay THEN def.clientOnly ELSE def.relayOnly)
    THEN [thrown |-> FALSE, reg |-> r]
    ELSE IF def.name \in DOMAIN try_emplace_section(r.m_definitions,
                                                    def.section)[def.section]
    THEN [thrown |-> TRUE,
          reg |-> [r EXCEPT
             !.m_definitions = try_emplace_section(@, def.section),
             !.m_sectionOrdering =
                 IF def.section \in DOMAIN r.m_definitions THEN @
                 ELSE Append(@, def.section)]]
    ELSE [thrown |-> FALSE,
          reg |-> [r EXCEPT
             !.m_definitions =
                 try_emplace_name(try_emplace_section(@, def.section),
                                  def.section, def),
             !.m_sectionOrdering =
                 IF def.section \in DOMAIN r.m_definitions THEN @
                 ELSE Append(@, def.section),
             !.m_definitionOrdering =
                 push_definition(@, def.section, def.name)]]

\* ConfigDefinition::visitSections: for each section of the ordering the
\* lookup its assertion guards
visitSections(r) ==
    [k \in 1..Len(r.m_sectionOrdering) |->
        r.m_sectionOrdering[k] \in DOMAIN r.m_definitions]

\* ConfigDefinition::visitDefinitions of a section: the two at() succeed and
\* each name of the ordering is found
visitDefinitions(r, section) ==
    /\ section \in DOMAIN r.m_definitions
    /\ section \in DOMAIN r.m_definitionOrdering
    /\ \A k \in 1..Len(r.m_definitionOrdering[section]) :
          r.m_definitionOrdering[section][k] \in DOMAIN r.m_definitions[section]

\* ConfigDefinition{isRelay}
InitRegVars ==
    \E isRelay \in BOOLEAN :
        reg = [r |-> [relay |-> isRelay, m_definitions |-> <<>>,
                      m_sectionOrdering |-> <<>>,
                      m_definitionOrdering |-> <<>>],
               calls |-> <<>>]

\* one call of defineOption; calls keeps each definition passed, whether the
\* call threw and whether it changed the registry
RegDefine ==
    /\ Len(reg.calls) < MaxDefs
    /\ \E def \in OptionDefs :
          reg' = [r |-> defineOption(reg.r, def).reg,
                  calls |-> Append(reg.calls,
                      [def |-> def,
                       thrown |-> defineOption(reg.r, def).thrown,
                       there |-> Defined(reg.r.m_definitions, def.section,
                                         def.name),
                       changed |-> defineOption(reg.r, def).reg # reg.r])]
    /\ UNCHANGED <<dhVars, edVars, rcVars, dataVars>>
    /\ SysFrame("reg")

NextReg ==
    \/ RegDefine

(***************************************************************************)
(* Loading a configuration.  An exception is modelled by the field         *)
(* `thrown` of what an operation returns.  A text is the sequence of its   *)
(* bytes.  What a Load has in hand is a record s: the Config being         *)
(* written (s.config), the ConfigDefinition `conf` with the values parsed  *)
(* so far, the handlers of undeclared values and the flags their lambdas   *)
(* capture (s.conf), and what the machine answers to FindFreeTun,          *)
(* FindFreeRange and GetBestNetIF (s.machine).                             *)
(***************************************************************************)
\* the values one behaviour puts into a Config: those read from files and
\* those written through the bindings
MaxEntries == 2

\* the operations on a Config in one behaviour
MaxCfgOps == 2

DefaultMinConnectionsForRouter == 6
DefaultMaxConnectionsForRouter == 60
DefaultMinConnectionsForClient == 4
DefaultMaxConnectionsForClient == 6
DefaultPublicPort == 1090
DefaultJobQueueSize == 8192

\* NetID::size()
NetID_size == 8

\* llarp::DEFAULT_NETID, "lokinet"
DEFAULT_NETID == <<108, 111, 107, 105, 110, 101, 116>>

\* "tcp://127.0.0.1:1190"
DefaultRPCBindAddr == <<116, 99, 112, 58, 47, 47, 49, 50, 55, 46, 48, 46, 48, 46, 49, 58, 49, 49, 57, 48>>

\* llarp::our_rc_filename and the three key files
our_rc_filename == <<115, 101, 108, 102, 46, 115, 105, 103, 110, 101, 100>>

our_enc_key_filename == <<101, 110, 99, 114, 121, 112, 116, 105, 111, 110, 46, 107, 101, 121>>

our_identity_filename == <<105, 100, 101, 110, 116, 105, 116, 121, 46, 107, 101, 121>>

our_transport_key_filename == <<116, 114, 97, 110, 115, 112, 111, 114, 116, 46, 107, 101, 121>>

minConnections(isRelay) ==
    IF isRelay THEN DefaultMinConnectionsForRouter
    ELSE DefaultMinConnectionsForClient

maxConnections(isRelay) ==
    IF isRelay THEN DefaultMaxConnectionsForRouter
    ELSE DefaultMaxConnectionsForClient

\* what is done with the outcome r of one statement: the next one runs on
\* what r left unless r threw
AndThen(r, F(_)) == IF r.thrown THEN r ELSE F(r)

\* the base class of a class of exceptions of the standard library
BaseClass(e) ==
    CASE e = "std::invalid_argument" -> "std::logic_error"
      [] e = "std::logic_error" -> "std::exception"
      [] e = "std::runtime_error" -> "std::exception"
      [] OTHER -> "none"

RECURSIVE IsA(_, _)
\* an exception of class e is one of class c
IsA(e, c) == e = c \/ (BaseClass(e) # "none" /\ IsA(BaseClass(e), c))

\* throw std::invalid_argument(...)
Throw(s) == [s EXCEPT !.thrown = TRUE, !.exception = "std::invalid_argument"]

\* throw std::runtime_error(...)
Throw_runtime_error(s) ==
    [s EXCEPT !.thrown = TRUE, !.exception = "std::runtime_error"]

(***************************************************************************)
(* Texts and the readers of the standard library.                          *)
(***************************************************************************)
\* std::isspace in the C locale
isspace(b) == b = 32 \/ b \in 9..13

RECURSIVE SkipSpace(_, _)
\* the first position from cur on that holds no white space
SkipSpace(str, cur) ==
    IF cur <= Len(str) /\ isspace(str[cur]) THEN SkipSpace(str, cur + 1)
    ELSE cur

RECURSIVE ReadInt(_, _, _)
\* the digits from cur on as an int; `over` when they spell more than
\* INT_MAX
ReadInt(str, cur, acc) ==
    IF cur > Len(str) \/ ~IsDigit(str[cur])
    THEN [val |-> acc, cur |-> cur, over |-> FALSE]
    ELSE IF acc > 214748364 \/ (acc = 214748364 /\ str[cur] > 55)
    THEN [val |-> acc, cur |-> cur, over |-> TRUE]
    ELSE ReadInt(str, cur + 1, acc * 10 + (str[cur] - 48))

\* the text begins, after white space, with a minus sign
Negative(str) ==
    SkipSpace(str, 1) <= Len(str) /\ str[SkipSpace(str, 1)] = 45

\* where the digits of a number begin: after white space and one sign
DigitsFrom(str) ==
    IF SkipSpace(str, 1) <= Len(str) /\ str[SkipSpace(str, 1)] \in {43, 45}
    THEN SkipSpace(str, 1) + 1
    ELSE SkipSpace(str, 1)

\* std::atoi is defined for the text: its number is within the range of int
atoi_defined(str) == ~ReadInt(str, DigitsFrom(str), 0).over

\* std::atoi: white space is skipped, one sign is read, then the digits; 0
\* when there is none.  For a number outside the range of int the
\* behaviour is undefined; no text the model reads is one
atoi(str) ==
    IF Negative(str) THEN 0 - ReadInt(str, DigitsFrom(str), 0).val
    ELSE ReadInt(str, DigitsFrom(str), 0).val

\* OptionDefinition<int>::fromString, operator>> of an istringstream: white
\* space is skipped, one sign is read, then the digits; no digit or a number
\* outside the range of int sets failbit and throws
fromString_int(input) ==
    IF ReadInt(input, DigitsFrom(input), 0).cur = DigitsFrom(input)
          \/ ReadInt(input, DigitsFrom(input), 0).over
    THEN [thrown |-> TRUE, val |-> 0]
    ELSE [thrown |-> FALSE, val |-> atoi(input)]

\* OptionDefinition<bool>::fromString
fromString_bool(input) ==
    IF input \in {<<102, 97, 108, 115, 101>>, <<111, 102, 102>>, <<48>>, <<110, 111>>}
    THEN [thrown |-> FALSE, val |-> FALSE]
    ELSE IF input \in {<<116, 114, 117, 101>>, <<111, 110>>, <<49>>, <<121, 101, 115>>}
    THEN [thrown |-> FALSE, val |-> TRUE]
    ELSE [thrown |-> TRUE, val |-> FALSE]

RECURSIVE WordEnd(_, _)
\* the position after the word that begins at cur
WordEnd(str, cur) ==
    IF cur <= Len(str) /\ ~isspace(str[cur]) THEN WordEnd(str, cur + 1)
    ELSE cur

\* OptionDefinition<fs::path>::fromString, operator>> of an istringstream:
\* the first word of a text without quotes; none throws
fromString_path(input) ==
    IF SkipSpace(input, 1) > Len(input) THEN [thrown |-> TRUE, val |-> <<>>]
    ELSE [thrown |-> FALSE,
          val |-> SubSeq(input, SkipSpace(input, 1),
                         WordEnd(input, SkipSpace(input, 1)) - 1)]

\* OptionDefinition<T>::fromString: a string is taken as it is
fromString(type, input) ==
    CASE type = "int" -> fromString_int(input)
      [] type = "bool" -> fromString_bool(input)
      [] type = "path" -> fromString_path(input)
      [] OTHER -> [thrown |-> FALSE, val |-> input]

\* T(): the value an acceptor gets when there is neither a value nor a
\* default
DefaultConstructed(type) ==
    CASE type = "int" -> 0
      [] type = "bool" -> FALSE
      [] OTHER -> <<>>

RECURSIVE find(_, _, _)
\* std::string::find from position pos on: where sub begins, 0 for npos
find(str, sub, pos) ==
    IF pos + Len(sub) - 1 > Len(str) THEN 0
    ELSE IF SubSeq(str, pos, pos + Len(sub) - 1) = sub THEN pos
    ELSE find(str, sub, pos + 1)

\* the text begins with prefix and goes on
HasPrefix(str, prefix) ==
    Len(str) > Len(prefix) /\ SubSeq(str, 1, Len(prefix)) = prefix

\* the text ends with suffix and has more before it
HasSuffix(str, suffix) ==
    Len(str) > Len(suffix)
       /\ SubSeq(str, Len(str) - Len(suffix) + 1, Len(str)) = suffix

RECURSIVE SkipDelimiter(_, _, _)
SkipDelimiter(str, delimiter, last) ==
    IF last <= Len(str) /\ str[last] = delimiter
    THEN SkipDelimiter(str, delimiter, last + 1)
    ELSE last

RECURSIVE split_from(_, _, _)
\* the loop of llarp::split from position last on; it ends at a delimiter
\* in first place
split_from(str, delimiter, last) ==
    IF last > Len(str) \/ find(str, <<delimiter>>, last) = last THEN <<>>
    ELSE IF find(str, <<delimiter>>, last) = 0
    THEN <<SubSeq(str, last, Len(str))>>
    ELSE <<SubSeq(str, last, find(str, <<delimiter>>, last) - 1)>>
            \o split_from(str, delimiter,
                          SkipDelimiter(str, delimiter,
                                        find(str, <<delimiter>>, last)))

\* llarp::split: the parts between runs of the delimiter
split(str, delimiter) == split_from(str, delimiter, 1)

\* every byte is a digit and there is one
AllDigits(str) == str # <<>> /\ \A k \in 1..Len(str) : IsDigit(str[k])

\* a text of at most three digits that spell at most 255
IsOctet(str) ==
    AllDigits(str) /\ Len(str) <= 3 /\ ReadInt(str, 1, 0).val <= 255

\* a dotted quad
IsIPv4(str) ==
    /\ Len(split(str, 46)) = 4
    /\ \A k \in 1..4 : IsOctet(split(str, 46)[k])
    /\ Len(str) = 3 + Len(split(str, 46)[1]) + Len(split(str, 46)[2])
                    + Len(split(str, 46)[3]) + Len(split(str, 46)[4])

\* IpAddress{str}: a dotted quad, with a port after a colon or without;
\* any other text throws
IpAddress(str) ==
    IF find(str, <<58>>, 1) = 0
    THEN [thrown |-> ~IsIPv4(str), host |-> str, port |-> <<>>]
    ELSE [thrown |->
             ~IsIPv4(SubSeq(str, 1, find(str, <<58>>, 1) - 1))
                \/ ~AllDigits(SubSeq(str, find(str, <<58>>, 1) + 1, Len(str)))
                \/ ReadInt(str, find(str, <<58>>, 1) + 1, 0).val > 65535,
          host |-> SubSeq(str, 1, find(str, <<58>>, 1) - 1),
          port |-> <<ReadInt(str, find(str, <<58>>, 1) + 1, 0).val>>]

\* the names service::ParseAuthType knows: none, whitelist, lmq
AuthTypes == {<<110, 111, 110, 101>>, <<119, 104, 105, 116, 101, 108, 105, 115, 116>>, <<108, 109, 113>>}

\* the names LogTypeFromString knows: file, json, syslog
LogTypes == {<<102, 105, 108, 101>>, <<106, 115, 111, 110>>, <<115, 121, 115, 108, 111, 103>>}

\* the names LogLevelFromString knows
LogLevels == {<<116, 114, 97, 99, 101>>, <<100, 101, 98, 117, 103>>, <<105, 110, 102, 111>>, <<119, 97, 114, 110>>, <<101, 114, 114, 111, 114>>, <<110, 111, 110, 101>>}

\* service::Address::FromString: a name under .loki
Address_FromString(str) == HasSuffix(str, <<46, 108, 111, 107, 105>>)

\* RouterID::FromString: a name under .snode
RouterID_FromString(str) == HasSuffix(str, <<46, 115, 110, 111, 100, 101>>)

\* IPRange::FromString: a dotted quad, a slash and a number of bits
IPRange_FromString(str) ==
    /\ find(str, <<47>>, 1) > 0
    /\ IsIPv4(SubSeq(str, 1, find(str, <<47>>, 1) - 1))
    /\ AllDigits(SubSeq(str, find(str, <<47>>, 1) + 1, Len(str)))
    /\ ReadInt(str, find(str, <<47>>, 1) + 1, 0).val <= 32

\* dns::SRVData::fromString: service, priority, weight, port and target
SRVData_fromString(str) ==
    /\ Len(split(str, 32)) = 5
    /\ \A k \in 2..4 : AllDigits(split(str, 32)[k])

\* lokimq::address: a text without a protocol throws
lokimq_address(str) ==
    [thrown |-> ~(HasPrefix(str, <<105, 112, 99, 58, 47, 47>>) \/ HasPrefix(str, <<116, 99, 112, 58, 47, 47>>)),
     addr |-> str]

\* the files fs::exists finds: "/tmp"
ExistingFiles == {<<47, 116, 109, 112>>}

(***************************************************************************)
(* The definitions of the options.                                         *)
(***************************************************************************)
\* an OptionDefinition<T>: the flags and the default it was made with; its
\* acceptor is the lambda of its section ("accept"), the one of
\* addIgnoreOption ("ignore") or none
Option(section, name, type, defaultValue, multiValued, relayOnly, clientOnly, acceptor) ==
    [section |-> section, name |-> name, type |-> type,
     defaultValue |-> defaultValue, multiValued |-> multiValued,
     relayOnly |-> relayOnly, clientOnly |-> clientOnly,
     acceptor |-> acceptor, parsedValues |-> <<>>]

\* the options Config::initializeConfig defines through the
\* defineConfigOptions of its nine parts, in the order of definition
initializeConfig(params) ==
    <<
       \* RouterConfig
       Option("router", "job-queue-size", "int", <<DefaultJobQueueSize>>, FALSE, FALSE, FALSE, "accept"),
       Option("router", "netid", "string", <<DEFAULT_NETID>>, FALSE, FALSE, FALSE, "accept"),
       Option("router", "min-connections", "int", <<minConnections(params.isRelay)>>, FALSE, FALSE, FALSE, "accept"),
       Option("router", "max-connections", "int", <<maxConnections(params.isRelay)>>, FALSE, FALSE, FALSE, "accept"),
       Option("router", "nickname", "string", <<>>, FALSE, FALSE, FALSE, "accept"),
       Option("router", "data-dir", "path", <<params.defaultDataDir>>, FALSE, FALSE, FALSE, "accept"),
       Option("router", "public-ip", "string", <<>>, FALSE, TRUE, FALSE, "accept"),
       Option("router", "public-address", "string", <<>>, FALSE, FALSE, FALSE, "accept"),
       Option("router", "public-port", "int", <<DefaultPublicPort>>, FALSE, TRUE, FALSE, "accept"),
       Option("router", "worker-threads", "int", <<0>>, FALSE, FALSE, FALSE, "accept"),
       Option("router", "block-bogons", "bool", <<TRUE>>, FALSE, FALSE, FALSE, "accept"),
       Option("router", "contact-file", "string", <<our_rc_filename>>, FALSE, TRUE, FALSE, "accept"),
       Option("router", "encryption-privkey", "string", <<our_enc_key_filename>>, FALSE, TRUE, FALSE, "accept"),
       Option("router", "ident-privkey", "string", <<our_identity_filename>>, FALSE, TRUE, FALSE, "accept"),
       Option("router", "transport-privkey", "string", <<our_transport_key_filename>>, FALSE, TRUE, FALSE, "accept"),
       \* NetworkConfig
       Option("network", "type", "string", <<<<116, 117, 110>>>>, FALSE, FALSE, FALSE, "accept"),
       Option("network", "profiling", "bool", <<FALSE>>, FALSE, FALSE, FALSE, "accept"),
       Option("network", "strict-connect", "string", <<>>, FALSE, FALSE, TRUE, "accept"),
       Option("network", "keyfile", "string", <<>>, FALSE, FALSE, TRUE, "accept"),
       Option("network", "auth", "string", <<>>, FALSE, FALSE, TRUE, "accept"),
       Option("network", "auth-lmq", "string", <<>>, FALSE, FALSE, TRUE, "accept"),
       Option("network", "auth-lmq-method", "string", <<<<108, 108, 97, 114, 112, 46, 97, 117, 116, 104>>>>, FALSE, FALSE, TRUE, "accept"),
       Option("network", "auth-whitelist", "string", <<>>, TRUE, FALSE, TRUE, "accept"),
       Option("network", "reachable", "bool", <<TRUE>>, FALSE, FALSE, TRUE, "accept"),
       Option("network", "hops", "int", <<4>>, FALSE, FALSE, FALSE, "accept"),
       Option("network", "paths", "int", <<6>>, FALSE, FALSE, TRUE, "accept"),
       Option("network", "exit", "bool", <<FALSE>>, FALSE, FALSE, TRUE, "accept"),
       Option("network", "exit-node", "string", <<>>, FALSE, FALSE, TRUE, "accept"),
       Option("network", "exit-auth", "string", <<>>, FALSE, FALSE, TRUE, "accept"),
       Option("network", "ifname", "string", <<>>, FALSE, FALSE, FALSE, "accept"),
       Option("network", "ifaddr", "string", <<>>, FALSE, FALSE, FALSE, "accept"),
       Option("network", "mapaddr", "string", <<>>, TRUE, FALSE, TRUE, "accept"),
       Option("network", "blacklist-snode", "string", <<>>, TRUE, FALSE, TRUE, "accept"),
       Option("network", "srv", "string", <<>>, TRUE, FALSE, TRUE, "accept"),
       \* DnsConfig
       Option("dns", "upstream", "string", <<<<49, 46, 49, 46, 49, 46, 49>>>>, TRUE, FALSE, FALSE, "accept"),
       Option("dns", "bind", "string", <<<<49, 50, 55, 46, 51, 46, 50, 46, 49, 58, 53, 51>>>>, FALSE, FALSE, FALSE, "accept"),
       Option("dns", "no-resolvconf", "bool", <<>>, FALSE, FALSE, TRUE, "none"),
       \* LinksConfig
       Option("bind", "*", "string", <<<<48>>>>, FALSE, FALSE, FALSE, "accept"),
       \* ApiConfig
       Option("api", "enabled", "bool", <<~params.isRelay>>, FALSE, FALSE, FALSE, "accept"),
       Option("api", "bind", "string", <<DefaultRPCBindAddr>>, FALSE, FALSE, FALSE, "accept"),
       \* LokidConfig
       Option("lokid", "enabled", "bool", <<TRUE>>, FALSE, TRUE, FALSE, "accept"),
       Option("lokid", "jsonrpc", "string", <<>>, FALSE, TRUE, FALSE, "accept"),
       Option("lokid", "rpc", "string", <<>>, FALSE, TRUE, FALSE, "accept"),
       \* BootstrapConfig
       Option("bootstrap", "add-node", "string", <<>>, TRUE, FALSE, FALSE, "accept"),
       \* LoggingConfig
       Option("logging", "type", "string", <<<<102, 105, 108, 101>>>>, FALSE, FALSE, FALSE, "accept"),
       Option("logging", "level", "string", <<<<105, 110, 102, 111>>>>, FALSE, FALSE, FALSE, "accept"),
       Option("logging", "file", "string", <<<<>>>>, FALSE, FALSE, FALSE, "accept")
    >>

\* the options Config::addBackwardsCompatibleConfigOptions defines
addBackwardsCompatibleConfigOptions ==
    <<
       Option("system", "user", "string", <<>>, TRUE, FALSE, FALSE, "ignore"),
       Option("system", "group", "string", <<>>, TRUE, FALSE, FALSE, "ignore"),
       Option("system", "pidfile", "string", <<>>, TRUE, FALSE, FALSE, "ignore"),
       Option("api", "authkey", "string", <<>>, TRUE, FALSE, FALSE, "ignore"),
       Option("netdb", "dir", "string", <<>>, TRUE, FALSE, FALSE, "ignore"),
       Option("router", "max-routers", "string", <<>>, TRUE, FALSE, FALSE, "ignore"),
       Option("router", "min-routers", "string", <<>>, TRUE, FALSE, FALSE, "ignore"),
       Option("router", "threads", "string", <<>>, TRUE, FALSE, FALSE, "ignore"),
       Option("router", "net-threads", "string", <<>>, TRUE, FALSE, FALSE, "ignore"),
       Option("metrics", "json-metrics-path", "string", <<>>, TRUE, FALSE, FALSE, "ignore"),
       Option("network", "enabled", "string", <<>>, TRUE, FALSE, FALSE, "ignore"),
       Option("lokid", "username", "string", <<>>, TRUE, FALSE, FALSE, "ignore"),
       Option("lokid", "password", "string", <<>>, TRUE, FALSE, FALSE, "ignore"),
       Option("lokid", "service-node-seed", "string", <<>>, TRUE, FALSE, FALSE, "ignore")
    >>

\* ConfigDefinition conf{isRelay}
NewConfigDefinition(isRelay) ==
    [relay |-> isRelay, m_definitions |-> <<>>, m_sectionOrdering |-> <<>>,
     m_definitionOrdering |-> <<>>]

RECURSIVE defineOptions(_, _, _)
\* conf.defineOption for each definition of a list, from definition k on
defineOptions(r, defs, k) ==
    IF k > Len(defs) THEN [thrown |-> FALSE, reg |-> r]
    ELSE AndThen(defineOption(r, defs[k]),
                 LAMBDA d : defineOptions(d.reg, defs, k + 1))

\* the directories Load and LoadDefault are given as the default data
\* directory: "/tmp" and "/nonexistent-dir"
DataDirs == {<<47, 116, 109, 112>>, <<47, 110, 111, 110, 101, 120, 105, 115, 116, 101, 110, 116, 45, 100, 105, 114>>}

ConfigGenParameters == [isRelay : BOOLEAN, defaultDataDir : DataDirs]

\* conf after initializeConfig and, in Load, after
\* addBackwardsCompatibleConfigOptions
Definitions(params, compatible) ==
    defineOptions(NewConfigDefinition(params.isRelay),
                  IF compatible
                  THEN initializeConfig(params)
                          \o addBackwardsCompatibleConfigOptions
                  ELSE initializeConfig(params), 1)

RECURSIVE DefinitionsTable(_, _)
\* conf for each of the parameters in S, computed once
DefinitionsTable(S, compatible) ==
    IF S = {} THEN <<>>
    ELSE LET params == CHOOSE p \in S : TRUE
         IN  (params :> Definitions(params, compatible))
                @@ DefinitionsTable(S \ {params}, compatible)

\* conf after the definitions of Load
LoadDefinitions == DefinitionsTable(ConfigGenParameters, TRUE)

\* conf after the definitions of LoadDefault
LoadDefaultDefinitions == DefinitionsTable(ConfigGenParameters, FALSE)

\* m_definitions.find(section) finds a section
IsSection(r, section) == section \in DOMAIN r.m_definitions

\* sectionDefinitions.find(name) finds an option
IsOption(r, section, name) == name \in DOMAIN r.m_definitions[section]

\* ConfigDefinition::addUndeclaredHandler: a section that has a handler
\* throws
addUndeclaredHandler(handlers, section) ==
    IF section \in handlers THEN [thrown |-> TRUE, handlers |-> handlers]
    ELSE [thrown |-> FALSE, handlers |-> handlers \cup {section}]

\* m_undeclaredHandlers after Config::initializeConfig: ConnectConfig adds
\* the handler of [connect], LinksConfig the one of [bind]
UndeclaredHandlers ==
    addUndeclaredHandler(addUndeclaredHandler({}, "connect").handlers,
                         "bind").handlers

(***************************************************************************)
(* The Config object.                                                      *)
(***************************************************************************)
\* an IpAddress without address or port
NoIpAddress == [host |-> <<>>, port |-> <<>>]

\* a LinkInfo without interface or port
NoLink == [interface |-> <<>>, addressFamily |-> "AF_INET", port |-> 0]

\* RouterConfig before any option is accepted
NewRouterConfig ==
    [m_JobQueueSize |-> 0, m_netId |-> <<>>, m_minConnectedRouters |-> 0,
     m_maxConnectedRouters |-> 0, m_nickname |-> <<>>, m_dataDir |-> <<>>,
     m_publicAddress |-> NoIpAddress, m_workerThreads |-> 0,
     m_numNetThreads |-> 0, m_blockBogons |-> FALSE, m_routerContactFile |-> <<>>,
     m_encryptionKeyFile |-> <<>>, m_identityKeyFile |-> <<>>,
     m_transportKeyFile |-> <<>>, m_isRelay |-> FALSE]

\* NetworkConfig before any option is accepted
NewNetworkConfig ==
    [m_endpointType |-> <<>>, m_enableProfiling |-> FALSE,
     m_strictConnect |-> <<>>, m_keyfile |-> <<>>, m_AuthType |-> <<110, 111, 110, 101>>,
     m_AuthUrl |-> <<>>, m_AuthMethod |-> <<>>, m_AuthWhitelist |-> {},
     m_reachable |-> FALSE, m_Hops |-> 0, m_Paths |-> 0,
     m_AllowExit |-> FALSE, m_ExitMap |-> {}, m_ExitAuths |-> {},
     m_ifname |-> <<>>, m_ifaddr |-> <<>>, m_mapAddrs |-> {},
     m_snodeBlacklist |-> {}, m_SRVRecords |-> <<>>]

\* Config before any option is accepted
NewConfig ==
    [router |-> NewRouterConfig,
     network |-> NewNetworkConfig,
     connect |-> [routers |-> <<>>],
     dns |-> [m_upstreamDNS |-> <<>>, m_bind |-> NoIpAddress],
     links |-> [m_OutboundLink |-> NoLink, m_InboundLinks |-> <<>>],
     api |-> [m_enableRPCServer |-> FALSE, m_rpcBindAddr |-> <<>>],
     lokid |-> [whitelistRouters |-> FALSE, ident_keyfile |-> <<>>,
                lokidRPCAddr |-> <<>>],
     bootstrap |-> [routers |-> <<>>],
     logging |-> [m_logType |-> <<102, 105, 108, 101>>, m_logLevel |-> <<105, 110, 102, 111>>,
                  m_logFile |-> <<>>]]

(***************************************************************************)
(* The values of a file.                                                   *)
(***************************************************************************)
RECURSIVE LastPort(_, _, _)
\* the loop over the parts of a value: the number of the last part whose
\* number is above zero.  std::atoi is given the bytes from the part's
\* first on, and every part ends where the value ends or at a comma
LastPort(splits, k, port) ==
    IF k > Len(splits) THEN port
    ELSE LastPort(splits, k + 1,
                  IF atoi(splits[k]) > 0 THEN atoi(splits[k]) ELSE port)

\* LinksConfig::LinkInfoFromINIValues: the name "address" takes the value as
\* an address with a port and throws without one; any other name is the
\* interface, and the value a list of parts between commas
LinkInfoFromINIValues(name, value) ==
    IF name = "address"
    THEN IF IpAddress(value).thrown \/ IpAddress(value).port = <<>>
         THEN [thrown |-> TRUE, info |-> NoLink]
         ELSE [thrown |-> FALSE,
               info |-> [interface |-> IpAddress(value).host,
                         addressFamily |-> "AF_INET",
                         port |-> IpAddress(value).port[1]]]
    ELSE [thrown |-> FALSE,
          info |-> [interface |-> name, addressFamily |-> "AF_INET",
                    port |-> LastPort(split(value, 44), 1, 0)]]

\* the first undeclared value of [bind] clears the default inbound link
clear_defaulted(s) ==
    IF s.conf.defaulted
    THEN [s EXCEPT !.config.links.m_InboundLinks = <<>>,
                   !.conf.defaulted = FALSE]
    ELSE s

\* the handler of undeclared values of [bind]: a port that is not above
\* zero throws, any other link is added to the inbound links
bind_handler(s, section, name, value) ==
    IF LinkInfoFromINIValues(name, value).thrown
          \/ LinkInfoFromINIValues(name, value).info.port <= 0
    THEN Throw(clear_defaulted(s))
    ELSE [clear_defaulted(s) EXCEPT
             !.config.links.m_InboundLinks =
                 Append(@, LinkInfoFromINIValues(name, value).info)]

\* the handler of undeclared values of [connect]: a file that does not
\* exist throws, one that exists is added to `routers`
connect_handler(s, section, name, value) ==
    IF value \notin ExistingFiles THEN Throw_runtime_error(s)
    ELSE [s EXCEPT !.config.connect.routers = Append(@, value)]

\* undItr->second(section, name, value)
handler(s, section, name, value) ==
    IF section = "bind" THEN bind_handler(s, section, name, value)
    ELSE connect_handler(s, section, name, value)

\* OptionDefinition::parseValue: a second value of a single-valued option
\* and a text fromString refuses throw std::invalid_argument; the value is
\* added to parsedValues
parseValue(def, input) ==
    IF ~def.multiValued /\ def.parsedValues # <<>>
    THEN [thrown |-> TRUE, def |-> def]
    ELSE IF fromString(def.type, input).thrown
    THEN [thrown |-> TRUE, def |-> def]
    ELSE [thrown |-> FALSE,
          def |-> [def EXCEPT
                      !.parsedValues =
                          Append(@, fromString(def.type, input).val)]]

\* ConfigDefinition::addConfigValue: a section that is not defined, or a
\* name that is not defined in its section, goes to the handler of
\* undeclared values of the section and throws if there is none
addConfigValue(s, section, name, value) ==
    IF ~IsSection(s.conf.r, section)
    THEN IF section \notin s.conf.handlers THEN Throw(s)
         ELSE handler(s, section, name, value)
    ELSE IF ~IsOption(s.conf.r, section, name)
    THEN IF section \notin s.conf.handlers THEN Throw(s)
         ELSE handler(s, section, name, value)
    ELSE [s EXCEPT
             !.thrown =
                 parseValue(s.conf.r.m_definitions[section][name],
                            value).thrown,
             !.exception =
                 IF parseValue(s.conf.r.m_definitions[section][name],
                               value).thrown
                 THEN "std::invalid_argument"
                 ELSE @,
             !.conf.r.m_definitions[section][name] =
                 parseValue(s.conf.r.m_definitions[section][name],
                            value).def]

RECURSIVE addConfigValues(_, _, _)
\* the loop of Load over the values of the file in the order IterAll hands
\* them over, from value k on
addConfigValues(s, file, k) ==
    IF k > Len(file) THEN s
    ELSE AndThen(addConfigValue(s, file[k].section, file[k].name,
                                file[k].value),
                 LAMBDA t : addConfigValues(t, file, k + 1))

(***************************************************************************)
(* The acceptors.                                                          *)
(***************************************************************************)
\* public-ip and public-address: an empty text is passed over, one of more
\* than 15 bytes throws; setAddress throws for a text that is no address
setAddress(s, arg) ==
    IF arg = <<>> THEN s
    ELSE IF Len(arg) > 15 \/ ~IsIPv4(arg) THEN Throw(s)
    ELSE [s EXCEPT !.config.router.m_publicAddress.host = arg]

\* the acceptors of RouterConfig::defineConfigOptions
accept_router(s, name, arg) ==
    CASE name = "job-queue-size" ->
            IF arg < 1024 THEN Throw(s)
            ELSE [s EXCEPT !.config.router.m_JobQueueSize = arg]
      [] name = "netid" ->
            IF Len(arg) > NetID_size THEN Throw(s)
            ELSE [s EXCEPT !.config.router.m_netId = arg]
      [] name = "min-connections" ->
            IF arg < minConnections(s.conf.r.relay) THEN Throw(s)
            ELSE [s EXCEPT !.config.router.m_minConnectedRouters = arg]
      [] name = "max-connections" ->
            IF arg < maxConnections(s.conf.r.relay) THEN Throw(s)
            ELSE [s EXCEPT !.config.router.m_maxConnectedRouters = arg]
      [] name = "nickname" -> [s EXCEPT !.config.router.m_nickname = arg]
      [] name = "data-dir" ->
            IF arg \notin ExistingFiles THEN Throw_runtime_error(s)
            ELSE [s EXCEPT !.config.router.m_dataDir = arg]
      [] name = "public-ip" -> setAddress(s, arg)
      [] name = "public-address" -> setAddress(s, arg)
      [] name = "public-port" ->
            IF arg <= 0 \/ arg > 65535 THEN Throw(s)
            ELSE [s EXCEPT !.config.router.m_publicAddress.port = <<arg>>]
      [] name = "worker-threads" ->
            IF arg < 0 THEN Throw(s)
            ELSE [s EXCEPT !.config.router.m_workerThreads = arg]
      [] name = "block-bogons" ->
            [s EXCEPT !.config.router.m_blockBogons = arg]
      [] name = "contact-file" ->
            [s EXCEPT !.config.router.m_routerContactFile = arg]
      [] name = "encryption-privkey" ->
            [s EXCEPT !.config.router.m_encryptionKeyFile = arg]
      [] name = "ident-privkey" ->
            [s EXCEPT !.config.router.m_identityKeyFile = arg]
      [] name = "transport-privkey" ->
            [s EXCEPT !.config.router.m_transportKeyFile = arg]

\* the part of a text before its first colon, the whole text without one
BeforeColon(arg) ==
    IF find(arg, <<58>>, 1) = 0 THEN arg
    ELSE SubSeq(arg, 1, find(arg, <<58>>, 1) - 1)

\* the part of a text after its first colon
AfterColon(arg) == SubSeq(arg, find(arg, <<58>>, 1) + 1, Len(arg))

\* the acceptor of exit-node: a range after the colon that is none, or an
\* address that is none, throws
accept_exit_node(s, arg) ==
    IF arg = <<>> THEN s
    ELSE IF find(arg, <<58>>, 1) # 0 /\ ~IPRange_FromString(AfterColon(arg))
    THEN Throw(s)
    ELSE IF ~Address_FromString(BeforeColon(arg)) THEN Throw(s)
    ELSE [s EXCEPT
             !.config.network.m_ExitMap =
                 @ \cup {<<IF find(arg, <<58>>, 1) = 0 THEN <<48, 46, 48, 46, 48, 46, 48, 47, 48>>
                           ELSE AfterColon(arg),
                           BeforeColon(arg)>>}]

\* the acceptor of exit-auth: a text without a colon, or an address that is
\* none, throws; std::map::emplace keeps the code an exit already has
accept_exit_auth(s, arg) ==
    IF arg = <<>> THEN s
    ELSE IF find(arg, <<58>>, 1) = 0 THEN Throw(s)
    ELSE IF ~Address_FromString(BeforeColon(arg)) THEN Throw(s)
    ELSE IF \E a \in s.config.network.m_ExitAuths : a[1] = BeforeColon(arg)
    THEN s
    ELSE [s EXCEPT
             !.config.network.m_ExitAuths =
                 @ \cup {<<BeforeColon(arg), AfterColon(arg)>>}]

\* the acceptor of mapaddr: a text without a colon, an ip or an address
\* that is none, and an ip that is mapped already throw
accept_mapaddr(s, arg) ==
    IF arg = <<>> THEN s
    ELSE IF find(arg, <<58>>, 1) = 0 THEN Throw(s)
    ELSE IF ~IsIPv4(AfterColon(arg)) THEN Throw(s)
    ELSE IF ~Address_FromString(BeforeColon(arg)) THEN Throw(s)
    ELSE IF \E m \in s.config.network.m_mapAddrs : m[1] = AfterColon(arg)
    THEN Throw(s)
    ELSE [s EXCEPT
             !.config.network.m_mapAddrs =
                 @ \cup {<<AfterColon(arg), BeforeColon(arg)>>}]

\* the acceptors of NetworkConfig::defineConfigOptions
accept_network(s, name, arg) ==
    CASE name = "type" -> [s EXCEPT !.config.network.m_endpointType = arg]
      [] name = "profiling" ->
            [s EXCEPT !.config.network.m_enableProfiling = arg]
      [] name = "strict-connect" ->
            [s EXCEPT !.config.network.m_strictConnect = arg]
      [] name = "keyfile" -> [s EXCEPT !.config.network.m_keyfile = arg]
      [] name = "auth" ->
            IF arg = <<>> THEN s
            ELSE IF arg \notin AuthTypes THEN Throw(s)
            ELSE [s EXCEPT !.config.network.m_AuthType = arg]
      [] name = "auth-lmq" -> [s EXCEPT !.config.network.m_AuthUrl = arg]
      [] name = "auth-lmq-method" ->
            IF arg = <<>> THEN s
            ELSE [s EXCEPT !.config.network.m_AuthMethod = arg]
      [] name = "auth-whitelist" ->
            IF ~Address_FromString(arg) THEN Throw(s)
            ELSE [s EXCEPT !.config.network.m_AuthWhitelist = @ \cup {arg}]
      [] name = "reachable" ->
            [s EXCEPT !.config.network.m_reachable = arg]
      [] name = "hops" ->
            IF arg < 1 \/ arg > 8 THEN Throw(s)
            ELSE [s EXCEPT !.config.network.m_Hops = arg]
      [] name = "paths" ->
            IF arg < 2 \/ arg > 8 THEN Throw(s)
            ELSE [s EXCEPT !.config.network.m_Paths = arg]
      [] name = "exit" -> [s EXCEPT !.config.network.m_AllowExit = arg]
      [] name = "exit-node" -> accept_exit_node(s, arg)
      [] name = "exit-auth" -> accept_exit_auth(s, arg)
      [] name = "ifname" ->
            IF arg # <<>> THEN [s EXCEPT !.config.network.m_ifname = arg]
            ELSE IF s.machine.FindFreeTun = <<>> THEN Throw(s)
            ELSE [s EXCEPT
                     !.config.network.m_ifname = s.machine.FindFreeTun[1]]
      [] name = "ifaddr" ->
            IF arg = <<>>
            THEN IF s.machine.FindFreeRange = <<>> THEN Throw(s)
                 ELSE [s EXCEPT
                          !.config.network.m_ifaddr =
                              s.machine.FindFreeRange[1]]
            ELSE IF ~IPRange_FromString(arg) THEN Throw(s)
            ELSE [s EXCEPT !.config.network.m_ifaddr = arg]
      [] name = "mapaddr" -> accept_mapaddr(s, arg)
      [] name = "blacklist-snode" ->
            IF ~RouterID_FromString(arg) THEN Throw(s)
            ELSE IF arg \in s.config.network.m_snodeBlacklist THEN Throw(s)
            ELSE [s EXCEPT !.config.network.m_snodeBlacklist = @ \cup {arg}]
      [] name = "srv" ->
            IF ~SRVData_fromString(arg) THEN Throw(s)
            ELSE [s EXCEPT !.config.network.m_SRVRecords = Append(@, arg)]

\* the first value of upstream clears the default resolver
clear_first(s) ==
    IF s.conf.first
    THEN [s EXCEPT !.config.dns.m_upstreamDNS = <<>>, !.conf.first = FALSE]
    ELSE s

\* the acceptor of upstream: the resolver is added before its port is
\* looked at, and a port other than 53 throws
accept_upstream(s, arg) ==
    IF arg = <<>> THEN s
    ELSE IF IpAddress(arg).thrown THEN Throw(s)
    ELSE IF IpAddress(arg).port # <<>> /\ IpAddress(arg).port # <<53>>
    THEN Throw([s EXCEPT
                   !.config.dns.m_upstreamDNS =
                       Append(@, [host |-> IpAddress(arg).host,
                                  port |-> IpAddress(arg).port])])
    ELSE [s EXCEPT
             !.config.dns.m_upstreamDNS =
                 Append(@, [host |-> IpAddress(arg).host, port |-> <<>>])]

\* the acceptors of DnsConfig::defineConfigOptions
accept_dns(s, name, arg) ==
    CASE name = "upstream" -> accept_upstream(clear_first(s), arg)
      [] name = "bind" ->
            IF IpAddress(arg).thrown THEN Throw(s)
            ELSE [s EXCEPT
                     !.config.dns.m_bind =
                         [host |-> IpAddress(arg).host,
                          port |-> IF IpAddress(arg).port = <<>> THEN <<53>>
                                   ELSE IpAddress(arg).port]]

\* the acceptor of [bind]:* in LinksConfig::defineConfigOptions
accept_links(s, name, arg) ==
    IF LinkInfoFromINIValues("*", arg).thrown THEN Throw(s)
    ELSE [s EXCEPT
             !.config.links.m_OutboundLink =
                 LinkInfoFromINIValues("*", arg).info]

\* the acceptors of ApiConfig::defineConfigOptions
accept_api(s, name, arg) ==
    CASE name = "enabled" -> [s EXCEPT !.config.api.m_enableRPCServer = arg]
      [] name = "bind" ->
            [s EXCEPT
                !.config.api.m_rpcBindAddr =
                    IF arg = <<>> THEN DefaultRPCBindAddr
                    ELSE IF find(arg, <<58, 47, 47>>, 1) = 0 THEN <<116, 99, 112, 58, 47, 47>> \o arg
                    ELSE arg]

\* the acceptors of LokidConfig::defineConfigOptions
accept_lokid(s, name, arg) ==
    CASE name = "enabled" -> [s EXCEPT !.config.lokid.whitelistRouters = arg]
      [] name = "jsonrpc" -> IF arg = <<>> THEN s ELSE Throw(s)
      [] name = "rpc" ->
            IF lokimq_address(arg).thrown THEN Throw(s)
            ELSE [s EXCEPT
                     !.config.lokid.lokidRPCAddr = lokimq_address(arg).addr]

\* the acceptor of add-node in BootstrapConfig::defineConfigOptions: the
\* file is added before it is looked for
accept_bootstrap(s, name, arg) ==
    IF arg = <<>> THEN Throw(s)
    ELSE IF arg \notin ExistingFiles
    THEN Throw([s EXCEPT !.config.bootstrap.routers = Append(@, arg)])
    ELSE [s EXCEPT !.config.bootstrap.routers = Append(@, arg)]

\* the acceptors of LoggingConfig::defineConfigOptions
accept_logging(s, name, arg) ==
    CASE name = "type" ->
            IF arg \notin LogTypes THEN Throw(s)
            ELSE [s EXCEPT !.config.logging.m_logType = arg]
      [] name = "level" ->
            IF arg \notin LogLevels THEN Throw(s)
            ELSE [s EXCEPT !.config.logging.m_logLevel = arg]
      [] name = "file" -> [s EXCEPT !.config.logging.m_logFile = arg]

\* acceptor(arg) of a definition; the acceptor of addIgnoreOption warns
accept(s, def, arg) ==
    IF def.acceptor = "ignore" THEN s
    ELSE CASE def.section = "router" -> accept_router(s, def.name, arg)
           [] def.section = "network" -> accept_network(s, def.name, arg)
           [] def.section = "dns" -> accept_dns(s, def.name, arg)
           [] def.section = "bind" -> accept_links(s, def.name, arg)
           [] def.section = "api" -> accept_api(s, def.name, arg)
           [] def.section = "lokid" -> accept_lokid(s, def.name, arg)
           [] def.section = "bootstrap" -> accept_bootstrap(s, def.name, arg)
           [] def.section = "logging" -> accept_logging(s, def.name, arg)

RECURSIVE acceptValues(_, _, _)
\* the acceptor for each value parsed, from value k on
acceptValues(s, def, k) ==
    IF k > Len(def.parsedValues) THEN s
    ELSE AndThen(accept(s, def, def.parsedValues[k]),
                 LAMBDA t : acceptValues(t, def, k + 1))

\* OptionDefinition::tryAccept: an option of many values hands each value
\* parsed to the acceptor; any other hands it the value parsed, else the
\* default, else a value made from nothing
tryAccept(s, def) ==
    IF def.acceptor = "none" THEN s
    ELSE IF def.multiValued THEN acceptValues(s, def, 1)
    ELSE accept(s, def,
                IF def.parsedValues # <<>> THEN def.parsedValues[1]
                ELSE IF def.defaultValue # <<>> THEN def.defaultValue[1]
                ELSE DefaultConstructed(def.type))

RECURSIVE acceptDefinitions(_, _, _)
\* visitDefinitions of a section with tryAccept, from name k of the
\* ordering on
acceptDefinitions(s, section, k) ==
    IF k > Len(s.conf.r.m_definitionOrdering[section]) THEN s
    ELSE AndThen(
             tryAccept(s, s.conf.r.m_definitions[section][
                              s.conf.r.m_definitionOrdering[section][k]]),
             LAMBDA t : acceptDefinitions(t, section, k + 1))

RECURSIVE acceptSections(_, _)
\* visitSections, from section j of the ordering on
acceptSections(s, j) ==
    IF j > Len(s.conf.r.m_sectionOrdering) THEN s
    ELSE AndThen(acceptDefinitions(s, s.conf.r.m_sectionOrdering[j], 1),
                 LAMBDA t : acceptSections(t, j + 1))

\* ConfigDefinition::acceptAllOptions: tryAccept of every definition, the
\* sections and the names of each in the order of definition, until one
\* throws
acceptAllOptions(s) == acceptSections(s, 1)

(***************************************************************************)
(* Load and LoadDefault.                                                   *)
(***************************************************************************)
\* what the defineConfigOptions write into the Config while they define:
\* the role, the default resolver, and an inbound link on the best
\* interface if there is one
defineConfigOptions(config, isRelay, machine) ==
    [config EXCEPT
        !.router.m_isRelay = isRelay,
        !.dns.m_upstreamDNS = Append(@, [host |-> <<49, 46, 49, 46, 49, 46, 49>>, port |-> <<>>]),
        !.links.m_InboundLinks =
            IF machine.GetBestNetIF = <<>> THEN @
            ELSE Append(@, LinkInfoFromINIValues(
                               machine.GetBestNetIF[1],
                               DecDigits(DefaultPublicPort)).info)]

\* what Load and LoadDefault have in hand once the options are defined
Defining(config, definitions, isRelay, machine) ==
    [thrown |-> definitions.thrown,
     exception |-> IF definitions.thrown THEN "std::invalid_argument"
                   ELSE "none",
     config |-> defineConfigOptions(config, isRelay, machine),
     conf |-> [r |-> definitions.reg, handlers |-> UndeclaredHandlers,
               defaulted |-> TRUE, first |-> TRUE],
     machine |-> machine]

\* the statements of Load from the loop over the file's values to
\* acceptAllOptions
LoadValues(s, file) ==
    AndThen(AndThen(s, LAMBDA t : addConfigValues(t, file, 1)),
            LAMBDA t : acceptAllOptions(t))

\* the end of the try block of Load after acceptAllOptions: the comparison
\* of the two options throws when the maximum is below the minimum
Compare(s) ==
    IF ~s.thrown
          /\ s.config.router.m_maxConnectedRouters
                < s.config.router.m_minConnectedRouters
    THEN Throw(s)
    ELSE s

\* try { ... return true; } catch (const c& e) { ...; return false; }: an
\* exception that is one of class c is answered with false, any other one
\* leaves the function
Catch(s, c) ==
    [ret |-> ~s.thrown,
     escaped |-> s.thrown /\ ~IsA(s.exception, c),
     exception |-> s.exception,
     config |-> s.config]

\* the handler that catches std::invalid_argument only
Caught_invalid_argument(s) == Catch(s, "std::invalid_argument")

\* catch (const std::exception& e) of Load and LoadDefault
Caught(s) == Catch(s, "std::exception")

\* Config::Load: the options are defined; false when the file cannot be
\* read
Load(config, file, readable, isRelay, defaultDataDir, machine) ==
    IF ~readable
    THEN [ret |-> FALSE, escaped |-> FALSE, exception |-> "none",
          config |-> defineConfigOptions(config, isRelay, machine)]
    ELSE Caught(Compare(LoadValues(
                     Defining(config,
                              LoadDefinitions[
                                  [isRelay |-> isRelay,
                                   defaultDataDir |-> defaultDataDir]],
                              isRelay, machine),
                     file)))

\* Config::generateBaseClientConfig and generateBaseRouterConfig: the
\* options of the role are defined on this Config, outside any try block;
\* the text they return is no part of the Config
generateBaseConfig(config, isRelay, defaultDataDir, machine) ==
    Defining(config,
             LoadDefaultDefinitions[
                 [isRelay |-> isRelay, defaultDataDir |-> defaultDataDir]],
             isRelay, machine).config

\* Config::LoadDefault: the options are defined and their defaults accepted
LoadDefault(config, isRelay, dataDir, machine) ==
    Caught(AndThen(Defining(config,
                            LoadDefaultDefinitions[
                                [isRelay |-> isRelay,
                                 defaultDataDir |-> dataDir]],
                            isRelay, machine),
                   LAMBDA t : acceptAllOptions(t)))

(***************************************************************************)
(* The harness: what is done to one Config.                                *)
(***************************************************************************)
\* the values of the files
ConfigEntries ==
    {[section |-> "router", name |-> "min-connections", value |-> v] :
        v \in {<<51>>, <<55>>, <<120>>}}
    \cup {[section |-> "router", name |-> "max-connections", value |-> v] :
             v \in {<<54>>, <<54, 48>>}}
    \cup {[section |-> "router", name |-> "netid", value |-> v] :
             v \in {<<103, 97, 109, 109, 97>>, [k \in 1..(NetID_size + 1) |-> 97]}}
    \cup {[section |-> "router", name |-> "job-queue-size", value |-> <<53>>],
          [section |-> "router", name |-> "nickname", value |-> <<98, 111, 98>>],
          [section |-> "router", name |-> "no-such-option", value |-> <<49>>],
          [section |-> "no-such-section", name |-> "x", value |-> <<49>>],
          [section |-> "network", name |-> "hops", value |-> <<52>>],
          [section |-> "network", name |-> "hops", value |-> <<57>>],
          [section |-> "bind", name |-> "eth0", value |-> <<48, 44, 32, 43, 49, 48, 57, 48>>],
          [section |-> "bind", name |-> "eth0", value |-> <<48>>],
          [section |-> "bind", name |-> "address", value |-> <<49, 48, 57, 48>>],
          [section |-> "connect", name |-> "x", value |-> <<47, 116, 109, 112>>],
          [section |-> "connect", name |-> "x", value |-> <<47, 110, 111, 112, 101>>],
          [section |-> "system", name |-> "user", value |-> <<120>>],
          [section |-> "lokid", name |-> "rpc", value |-> <<105, 112, 99, 58, 47, 47, 47, 120>>]}

\* the values are handed over section by section
Contiguous(file) ==
    \A i, j \in 1..Len(file) :
        (i < j /\ file[i].section = file[j].section)
           => \A k \in i..j : file[k].section = file[i].section

\* the files of up to n values, in every order IterAll may hand them over
ConfigFiles ==
    [n \in 0..MaxEntries |->
        {file \in UNION {[1..k -> ConfigEntries] : k \in 0..n} :
            Contiguous(file)
               /\ \A k \in 1..Len(file) : atoi_defined(file[k].value)}]

\* a machine where a free tun, a free range and an interface are found
Machine ==
    [FindFreeTun |-> <<<<108, 111, 107, 105, 110, 101, 116, 48>>>>, FindFreeRange |-> <<<<49, 48, 46, 48, 46, 48, 46, 49, 47, 49, 54>>>>,
     GetBestNetIF |-> <<"eth0">>]

\* the machines a Config is loaded on: all is found, neither a free tun nor
\* an interface is found, no free range is found
Machines ==
    {Machine,
     [Machine EXCEPT !.FindFreeTun = <<>>, !.GetBestNetIF = <<>>],
     [Machine EXCEPT !.FindFreeRange = <<>>]}

\* a text of n letters a
Letters(n) == [k \in 1..n |-> 97]

\* the objects the bindings assign to the members of Config: one as
\* constructed, and a RouterConfig whose minimum is above its maximum
WrittenObjects ==
    {<<m, NewConfig[m]>> :
        m \in {"router", "network", "connect", "links", "api", "lokid",
               "bootstrap", "logging"}}
    \cup {<<"router",
            [NewRouterConfig EXCEPT !.m_netId = <<103, 97, 109, 109, 97>>,
                                    !.m_minConnectedRouters = 7,
                                    !.m_maxConnectedRouters = 6]>>}

\* what the bindings write into the members of a RouterConfig: a minimum
\* of 1, a maximum of 0, a netid of twelve letters, a data directory that
\* does not exist
WrittenRouter ==
    {<<"m_minConnectedRouters", 1>>, <<"m_maxConnectedRouters", 0>>,
     <<"m_netId", Letters(NetID_size + NetID_size \div 2)>>,
     <<"m_nickname", Letters(1)>>,
     <<"m_dataDir", <<47, 110, 111, 110, 101, 120, 105, 115, 116, 101, 110, 116, 45, 100, 105, 114>>>>,
     <<"m_blockBogons", TRUE>>, <<"m_workerThreads", 2>>,
     <<"m_numNetThreads", 2>>, <<"m_JobQueueSize", 5>>}

\* the texts overrideAddress is called with: "10.0.0.1:1090" and "x"
WrittenAddresses == {<<49, 48, 46, 48, 46, 48, 46, 49, 58, 49, 48, 57, 48>>, <<120>>}

\* what the bindings write into the members of a NetworkConfig: nine hops,
\* a blacklist and a map of one entry each
WrittenNetwork ==
    {<<"m_enableProfiling", TRUE>>, <<"m_endpointType", <<110, 117, 108, 108>>>>,
     <<"m_keyfile", Letters(1)>>, <<"m_reachable", TRUE>>,
     <<"m_Hops", 9>>, <<"m_Paths", 1>>,
     <<"m_snodeBlacklist", {<<97, 46, 115, 110, 111, 100, 101>>}>>,
     <<"m_mapAddrs", {<<<<49, 48, 46, 48, 46, 48, 46, 50>>, <<97, 46, 108, 111, 107, 105>>>>}>>,
     <<"m_strictConnect", Letters(1)>>}

\* the list ConnectConfig.routers and BootstrapConfig.routers are written:
\* one file that does not exist
WrittenFiles == {<<<<47, 110, 111, 112, 101>>>>}

\* the links setOutboundLink and addInboundLink are called with
WrittenLinks == {[interface |-> "eth1", addressFamily |-> "AF_INET6", port |-> 0]}

\* what the bindings write into the members of an ApiConfig
WrittenApi == {<<"m_enableRPCServer", TRUE>>, <<"m_rpcBindAddr", Letters(1)>>}

\* what the bindings write into the two plain members of a LokidConfig
WrittenLokid == {<<"whitelistRouters", TRUE>>, <<"ident_keyfile", Letters(1)>>}

\* the texts the binding lokidRPCAddr is written: "ipc:///y" and "x"
WrittenRPCAddrs == {<<105, 112, 99, 58, 47, 47, 47, 121>>, <<120>>}

\* what the bindings write into the members of a LoggingConfig
WrittenLogging == {<<"m_logType", <<106, 115, 111, 110>>>>, <<"m_logFile", Letters(1)>>}

\* no Load was called yet
NoLoad ==
    [n |-> 0, file |-> <<>>, isRelay |-> FALSE, readable |-> FALSE,
     defaultDataDir |-> <<>>, ret |-> FALSE, escaped |-> FALSE,
     exception |-> "none"]

\* a new Config on one of the machines
InitCfgVars ==
    \E machine \in Machines :
        cfg = [config |-> NewConfig, machine |-> machine, ops |-> 0,
               read |-> 0, load |-> NoLoad]

\* the Config and the record of the call after a Load that answered r
Loaded(r, file, readable, isRelay, defaultDataDir) ==
    [cfg EXCEPT
        !.config = r.config,
        !.ops = @ + 1,
        !.read = @ + Len(file),
        !.load = [n |-> @.n + 1, file |-> file, isRelay |-> isRelay,
                  readable |-> readable, defaultDataDir |-> defaultDataDir,
                  ret |-> r.ret, escaped |-> r.escaped,
                  exception |-> r.exception]]

\* Config::Load; the file that cannot be read has no content
CfgLoad ==
    /\ cfg.ops < MaxCfgOps
    /\ \E file \in ConfigFiles[MaxEntries - cfg.read], readable \in BOOLEAN, isRelay \in BOOLEAN, defaultDataDir \in DataDirs :
          /\ ~readable => file = <<>>
          /\ cfg' = Loaded(Load(cfg.config, file, readable, isRelay,
                                defaultDataDir, cfg.machine),
                           file, readable, isRelay, defaultDataDir)
    /\ UNCHANGED <<dhVars, edVars, rcVars, dataVars>>
    /\ SysFrame("cfg")

\* Config::LoadDefault
CfgLoadDefault ==
    /\ cfg.ops < MaxCfgOps
    /\ \E isRelay \in BOOLEAN, dataDir \in DataDirs :
          cfg' = [cfg EXCEPT
                !.config = LoadDefault(cfg.config, isRelay, dataDir,
                                       cfg.machine).config,
                !.ops = @ + 1]
    /\ UNCHANGED <<dhVars, edVars, rcVars, dataVars>>
    /\ SysFrame("cfg")

\* the Config after a binding wrote it
Written(config) ==
    [cfg EXCEPT !.config = config, !.ops = @ + 1, !.read = @ + 1]

\* Config::generateBaseClientConfig
CfgGenerateBaseClientConfig ==
    /\ cfg.ops < MaxCfgOps /\ cfg.read < MaxEntries
    /\ \E defaultDataDir \in DataDirs :
          cfg' = [cfg EXCEPT
                !.config = generateBaseConfig(cfg.config, FALSE,
                                              defaultDataDir, cfg.machine),
                !.ops = @ + 1, !.read = @ + 1]
    /\ UNCHANGED <<dhVars, edVars, rcVars, dataVars>>
    /\ SysFrame("cfg")

\* Config::generateBaseRouterConfig
CfgGenerateBaseRouterConfig ==
    /\ cfg.ops < MaxCfgOps /\ cfg.read < MaxEntries
    /\ \E defaultDataDir \in DataDirs :
          cfg' = [cfg EXCEPT
                !.config = generateBaseConfig(cfg.config, TRUE,
                                              defaultDataDir, cfg.machine),
                !.ops = @ + 1, !.read = @ + 1]
    /\ UNCHANGED <<dhVars, edVars, rcVars, dataVars>>
    /\ SysFrame("cfg")

\* the bindings of the members of Config: router, network, connect, links,
\* api, lokid, bootstrap or logging is assigned an object
CfgWriteConfig ==
    /\ cfg.ops < MaxCfgOps /\ cfg.read < MaxEntries
    /\ \E w \in WrittenObjects :
          cfg' = Written([cfg.config EXCEPT ![w[1]] = w[2]])
    /\ UNCHANGED <<dhVars, edVars, rcVars, dataVars>>
    /\ SysFrame("cfg")

\* the bindings of RouterConfig: a member is written, or overrideAddress
\* is called, where a text IpAddress refuses throws before the assignment
CfgWriteRouterConfig ==
    /\ cfg.ops < MaxCfgOps /\ cfg.read < MaxEntries
    /\ \/ \E w \in WrittenRouter :
             cfg' = Written([cfg.config EXCEPT !.router[w[1]] = w[2]])
       \/ \E addr \in WrittenAddresses :
             cfg' = Written(
                 IF IpAddress(addr).thrown THEN cfg.config
                 ELSE [cfg.config EXCEPT
                          !.router.m_publicAddress =
                              [host |-> IpAddress(addr).host,
                               port |-> IpAddress(addr).port]])
    /\ UNCHANGED <<dhVars, edVars, rcVars, dataVars>>
    /\ SysFrame("cfg")

\* the bindings of NetworkConfig: a member is written
CfgWriteNetworkConfig ==
    /\ cfg.ops < MaxCfgOps /\ cfg.read < MaxEntries
    /\ \E w \in WrittenNetwork :
          cfg' = Written([cfg.config EXCEPT !.network[w[1]] = w[2]])
    /\ UNCHANGED <<dhVars, edVars, rcVars, dataVars>>
    /\ SysFrame("cfg")

\* the binding ConnectConfig.routers is written
CfgWriteConnectConfig ==
    /\ cfg.ops < MaxCfgOps /\ cfg.read < MaxEntries
    /\ \E routers \in WrittenFiles :
          cfg' = Written([cfg.config EXCEPT !.connect.routers = routers])
    /\ UNCHANGED <<dhVars, edVars, rcVars, dataVars>>
    /\ SysFrame("cfg")

\* LinksConfig.setOutboundLink
CfgSetOutboundLink ==
    /\ cfg.ops < MaxCfgOps /\ cfg.read < MaxEntries
    /\ \E info \in WrittenLinks :
          cfg' = Written([cfg.config EXCEPT !.links.m_OutboundLink = info])
    /\ UNCHANGED <<dhVars, edVars, rcVars, dataVars>>
    /\ SysFrame("cfg")

\* LinksConfig.addInboundLink
CfgAddInboundLink ==
    /\ cfg.ops < MaxCfgOps /\ cfg.read < MaxEntries
    /\ \E info \in WrittenLinks :
          cfg' = Written([cfg.config EXCEPT
                             !.links.m_InboundLinks = Append(@, info)])
    /\ UNCHANGED <<dhVars, edVars, rcVars, dataVars>>
    /\ SysFrame("cfg")

\* the bindings of ApiConfig: a member is written
CfgWriteApiConfig ==
    /\ cfg.ops < MaxCfgOps /\ cfg.read < MaxEntries
    /\ \E w \in WrittenApi :
          cfg' = Written([cfg.config EXCEPT !.api[w[1]] = w[2]])
    /\ UNCHANGED <<dhVars, edVars, rcVars, dataVars>>
    /\ SysFrame("cfg")

\* the bindings of LokidConfig: a member is written, or lokidRPCAddr is,
\* where a text lokimq::address refuses throws before the assignment
CfgWriteLokidConfig ==
    /\ cfg.ops < MaxCfgOps /\ cfg.read < MaxEntries
    /\ \/ \E w \in WrittenLokid :
             cfg' = Written([cfg.config EXCEPT !.lokid[w[1]] = w[2]])
       \/ \E arg \in WrittenRPCAddrs :
             cfg' = Written(
                 IF lokimq_address(arg).thrown THEN cfg.config
                 ELSE [cfg.config EXCEPT
                          !.lokid.lokidRPCAddr = lokimq_address(arg).addr])
    /\ UNCHANGED <<dhVars, edVars, rcVars, dataVars>>
    /\ SysFrame("cfg")

\* the binding BootstrapConfig.routers is written: the list is cleared
\* and every text added
CfgWriteBootstrapConfig ==
    /\ cfg.ops < MaxCfgOps /\ cfg.read < MaxEntries
    /\ \E args \in WrittenFiles :
          cfg' = Written([cfg.config EXCEPT !.bootstrap.routers = args])
    /\ UNCHANGED <<dhVars, edVars, rcVars, dataVars>>
    /\ SysFrame("cfg")

\* the bindings of LoggingConfig: a member is written
CfgWriteLoggingConfig ==
    /\ cfg.ops < MaxCfgOps /\ cfg.read < MaxEntries
    /\ \E w \in WrittenLogging :
          cfg' = Written([cfg.config EXCEPT !.logging[w[1]] = w[2]])
    /\ UNCHANGED <<dhVars, edVars, rcVars, dataVars>>
    /\ SysFrame("cfg")

NextCfg ==
    \/ CfgLoad
    \/ CfgLoadDefault
    \/ CfgGenerateBaseClientConfig
    \/ CfgGenerateBaseRouterConfig
    \/ CfgWriteConfig
    \/ CfgWriteRouterConfig
    \/ CfgWriteNetworkConfig
    \/ CfgWriteConnectConfig
    \/ CfgSetOutboundLink
    \/ CfgAddInboundLink
    \/ CfgWriteApiConfig
    \/ CfgWriteLokidConfig
    \/ CfgWriteBootstrapConfig
    \/ CfgWriteLoggingConfig

(***************************************************************************)
(* Specifications: one harness runs, the others are at rest.                 *)
(***************************************************************************)
NoProc == <<>>
NoKc == <<>>
NoRd == <<>>
NoFs == <<>>
NoBd == <<>>
NoCl == <<>>
NoLg == <<>>
NoCfg == <<>>
NoReg == <<>>

\* every variable of sysVars but `v` is at rest
SysIdleBut(v) ==
    /\ IF v = "proc" THEN TRUE ELSE proc = NoProc
    /\ IF v = "kc" THEN TRUE ELSE kc = NoKc
    /\ IF v = "rd" THEN TRUE ELSE rd = NoRd
    /\ IF v = "fs" THEN TRUE ELSE fs = NoFs
    /\ IF v = "bd" THEN TRUE ELSE bd = NoBd
    /\ IF v = "cl" THEN TRUE ELSE cl = NoCl
    /\ IF v = "lg" THEN TRUE ELSE lg = NoLg
    /\ IF v = "cfg" THEN TRUE ELSE cfg = NoCfg
    /\ IF v = "reg" THEN TRUE ELSE reg = NoReg

DhIdle ==
    /\ dhKeys = [p \in Parties |-> encryption_keygen(RandomBuf(0))]
    /\ dhOut = [i \in DhSlots |-> NoCall]

EdIdle ==
    /\ edRoot = identity_keygen(RandomBuf(0))
    /\ edIn = [idx |-> [i \in EdSlots |-> 0], hash |-> NoHash]
    /\ edSub = [i \in EdSlots |-> NoSub]
    /\ edSig = NoSig
    /\ edVer = NoVer

RcIdle ==
    /\ rcs = [i \in Instances |-> NewRouterContact]
    /\ rcSigned = [i \in Instances |-> NoFields]
    /\ wire = NoWire
    /\ rcVer = NoRcVer

DataIdle ==
    /\ codec = NoCodec
    /\ hold = NoHold
    /\ xc = NoXc
    /\ SysIdleBut("")

InitDH == InitDhVars /\ EdIdle /\ RcIdle /\ DataIdle
SpecDH == InitDH /\ [][NextDH]_vars

InitEd == InitEdVars /\ DhIdle /\ RcIdle /\ DataIdle
SpecEd == InitEd /\ [][NextEd]_vars

InitRC == InitRcVars /\ DhIdle /\ EdIdle /\ DataIdle
SpecRC == InitRC /\ [][NextRC]_vars

InitCodec ==
    InitCodecVars /\ hold = NoHold /\ xc = NoXc /\ DhIdle /\ EdIdle /\ RcIdle
    /\ SysIdleBut("")
SpecCodec == InitCodec /\ [][NextCodec]_vars

InitHold ==
    InitHoldVars /\ codec = NoCodec /\ xc = NoXc /\ DhIdle /\ EdIdle /\ RcIdle
    /\ SysIdleBut("")
SpecHold == InitHold /\ [][NextHold]_vars

InitXc ==
    InitXcVars /\ codec = NoCodec /\ hold = NoHold /\ DhIdle /\ EdIdle /\ RcIdle
    /\ SysIdleBut("")
SpecXc == InitXc /\ [][NextXc]_vars

InitProc ==
    InitProcVars /\ DhIdle /\ EdIdle /\ RcIdle
    /\ codec = NoCodec /\ hold = NoHold /\ xc = NoXc /\ SysIdleBut("proc")
SpecProc == InitProc /\ [][NextProc]_vars

InitKc ==
    InitKcVars /\ DhIdle /\ EdIdle /\ RcIdle
    /\ codec = NoCodec /\ hold = NoHold /\ xc = NoXc /\ SysIdleBut("kc")
SpecKc == InitKc /\ [][NextKc]_vars

InitRd ==
    InitRdVars /\ DhIdle /\ EdIdle /\ RcIdle
    /\ codec = NoCodec /\ hold = NoHold /\ xc = NoXc /\ SysIdleBut("rd")
SpecRd == InitRd /\ [][NextRd]_vars

InitFs ==
    InitFsVars /\ DhIdle /\ EdIdle /\ RcIdle
    /\ codec = NoCodec /\ hold = NoHold /\ xc = NoXc /\ SysIdleBut("fs")
SpecFs == InitFs /\ [][NextFs]_vars

InitBd ==
    InitBdVars /\ DhIdle /\ EdIdle /\ RcIdle
    /\ codec = NoCodec /\ hold = NoHold /\ xc = NoXc /\ SysIdleBut("bd")
SpecBd == InitBd /\ [][NextBd]_vars

InitCl ==
    InitClVars /\ DhIdle /\ EdIdle /\ RcIdle
    /\ codec = NoCodec /\ hold = NoHold /\ xc = NoXc /\ SysIdleBut("cl")
SpecCl == InitCl /\ [][NextCl]_vars

InitLg ==
    InitLgVars /\ DhIdle /\ EdIdle /\ RcIdle
    /\ codec = NoCodec /\ hold = NoHold /\ xc = NoXc /\ SysIdleBut("lg")
SpecLg == InitLg /\ [][NextLg]_vars

InitCfg ==
    InitCfgVars /\ DhIdle /\ EdIdle /\ RcIdle
    /\ codec = NoCodec /\ hold = NoHold /\ xc = NoXc /\ SysIdleBut("cfg")
SpecCfg == InitCfg /\ [][NextCfg]_vars

InitReg ==
    InitRegVars /\ DhIdle /\ EdIdle /\ RcIdle
    /\ codec = NoCodec /\ hold = NoHold /\ xc = NoXc /\ SysIdleBut("reg")
SpecReg == InitReg /\ [][NextReg]_vars

(***************************************************************************)
(* Signing and subkey derivation: properties.                              *)
(***************************************************************************)
\* the signature in edSig was made by slot i's private subkey, which is the
\* key still held in the slot
SignedBy(i) == edSig.called /\ edSig.slot = i

\* the nonce r of the signature in edSig is zero modulo the group order
ZeroNonce == sodium_is_zero(SignNonce(edSig.rand, edSig.msg))

\* C4: derived-key signing.  sign(PrivateKey) returns true for every raw
\* scalar a, message m and random bytes.  Its signature R || S is accepted by
\* verify under the public key A = a * B whenever the nonce r it made of the
\* random bytes is not zero modulo the group order; for r = 0 the R it wrote
\* is the identity, which verify refuses.
C4_DerivedSignVerifies ==
    (edVer.called /\ edVer.key = "signer") =>
        /\ edSig.ret
        /\ edVer.ok <=> ~ZeroNonce

\* a signature made with a derived scalar and a nonce that is not zero was
\* verified under a * B
C4_Witness ==
    /\ edSig.called /\ edSig.ret /\ ~ZeroNonce
    /\ edVer.called /\ edVer.key = "signer" /\ edVer.ok
    /\ edSig.sig # ZeroBuf \o ZeroBuf

\* C4 as stated: every signature of sign(PrivateKey) is accepted under
\* A = a * B, for every value of the nonce r
C4_EveryNonceVerifies ==
    (edVer.called /\ edVer.key = "signer") => edVer.ok

\* C5: subkey consistency.  In every slot where derive_subkey and
\* derive_subkey_private both succeeded for the same root key and index (or the
\* same override), the derived public key is the derived private scalar times
\* the base point.
C5_SubkeyConsistent ==
    \A i \in EdSlots :
        (/\ edSub[i].pub.called /\ edSub[i].pub.ret
         /\ edSub[i].priv.called /\ edSub[i].priv.ret) =>
            edSub[i].pub.out = PrivateKey_toPublic(edSub[i].priv.out)

\* both derivations succeeded from the hashed index, and gave a key that is
\* not the root's
C5_Witness ==
    /\ edIn.hash = NoHash
    /\ edSub[1].pub.called /\ edSub[1].pub.ret
    /\ edSub[1].priv.called /\ edSub[1].priv.ret
    /\ edSub[1].pub.out = PrivateKey_toPublic(edSub[1].priv.out)
    /\ edSub[1].pub.out # seckey_topublic(edRoot)

\* slots i and j were given the same root public key and index
SameInputs(i, j, f) ==
    /\ edSub[i][f].called /\ edSub[j][f].called
    /\ edSub[i][f].key = edSub[j][f].key
    /\ edIn.idx[i] = edIn.idx[j]

\* C6: subkey determinism.  Two runs of derive_subkey, and two runs of
\* derive_subkey_private, on the same root key, index and override return
\* the same success flag whatever the output buffers held and whatever was
\* called in between; derive_subkey_private always writes the same bytes,
\* and so does derive_subkey when it returns true; a derive_subkey that
\* returns false for a root public key the library refuses leaves the
\* output buffer holding what it held.
C6_SubkeyDeterministic ==
    \A i, j \in EdSlots :
        /\ SameInputs(i, j, "pub") =>
              /\ edSub[i].pub.ret = edSub[j].pub.ret
              /\ edSub[i].pub.ret => edSub[i].pub.out = edSub[j].pub.out
        /\ (edSub[i].pub.called /\ edSub[i].pub.key = SmallOrderKey) =>
              ~edSub[i].pub.ret /\ edSub[i].pub.out = edSub[i].pub.was
        /\ SameInputs(i, j, "priv") =>
              /\ edSub[i].priv.ret = edSub[j].priv.ret
              /\ edSub[i].priv.out = edSub[j].priv.out

\* the same derivations ran in both slots, in slot 1 into buffers that held
\* the bytes of an earlier run and after a signature was made and verified
C6_Witness ==
    /\ SameInputs(1, 2, "pub") /\ SameInputs(1, 2, "priv")
    /\ edVer.called /\ SignedBy(1)
    /\ edSub[1].pub.ret /\ edSub[1].priv.ret
    /\ edSub[1].pub.was # ZeroBuf /\ edSub[2].pub.was = ZeroBuf
    /\ edSub[1].priv.was # ZeroBuf /\ edSub[2].priv.was = ZeroBuf
    /\ edSub[1].pub.out = edSub[2].pub.out
    /\ edSub[1].priv.out = edSub[2].priv.out

\* C6 as stated: two runs on the same inputs return the same flag and
\* bit-identical output
C6_SameFlagAndBytes ==
    \A i, j \in EdSlots :
        /\ SameInputs(i, j, "pub") =>
              /\ edSub[i].pub.ret = edSub[j].pub.ret
              /\ edSub[i].pub.out = edSub[j].pub.out
        /\ SameInputs(i, j, "priv") =>
              /\ edSub[i].priv.ret = edSub[j].priv.ret
              /\ edSub[i].priv.out = edSub[j].priv.out

\* C7: subkey distinctness.  Without an override, derive_subkey on one root
\* public key and two different indices yields two different public keys.
C7_SubkeyDistinct ==
    \A i, j \in EdSlots :
        (/\ edIn.hash = NoHash
         /\ edIn.idx[i] # edIn.idx[j]
         /\ edSub[i].pub.called /\ edSub[i].pub.ret
         /\ edSub[j].pub.called /\ edSub[j].pub.ret) =>
            edSub[i].pub.out # edSub[j].pub.out

\* two indices were derived from one root
C7_Witness ==
    /\ edIn.hash = NoHash
    /\ edIn.idx[1] # edIn.idx[2]
    /\ edSub[1].pub.called /\ edSub[1].pub.ret
    /\ edSub[2].pub.called /\ edSub[2].pub.ret
    /\ edSub[1].pub.out # edSub[2].pub.out

\* C8: derived-signature isolation.  A signature made with the private
\* subkey of index i verifies under the derived public key of index i unless
\* its nonce r is zero modulo the group order; verify returns false for it
\* under the root's public key and under the derived public key of every
\* other index.
C8_DerivedSignIsolated ==
    (edVer.called /\ edIn.hash = NoHash) =>
        /\ (edVer.key = "root") => ~edVer.ok
        /\ \A i \in EdSlots :
              (edVer.key = (IF i = 1 THEN "sub1" ELSE "sub2")) =>
                  IF edIn.idx[i] = edIn.idx[edSig.slot] /\ ~ZeroNonce
                  THEN edVer.ok ELSE ~edVer.ok

\* C8 as stated: the signature verifies under the derived public key of its
\* own index, for every nonce
C8_EveryNonceIsolated ==
    (edVer.called /\ edIn.hash = NoHash) =>
        /\ (edVer.key = "root") => ~edVer.ok
        /\ \A i \in EdSlots :
              (edVer.key = (IF i = 1 THEN "sub1" ELSE "sub2")) =>
                  IF edIn.idx[i] = edIn.idx[edSig.slot] THEN edVer.ok ELSE ~edVer.ok

\* a signature of subkey idx[1] was refused under the derived public key of
\* another index
C8_Witness ==
    /\ edIn.hash = NoHash
    /\ edIn.idx[1] # edIn.idx[2]
    /\ SignedBy(1) /\ ~ZeroNonce
    /\ edVer.called /\ edVer.key = "sub2" /\ ~edVer.ok

(***************************************************************************)
(* The router contact: properties.                                         *)
(***************************************************************************)
\* the instance the last Verify was called on
Verified == rcs[rcVer.inst]

\* no advertised address of the verified instance is refused by the bogon
\* policy in force at the call
AddrsAllowed ==
    \A k \in 1..Len(Verified.addrs) :
        ~(IsBogon(Verified.addrs[k].ip) /\ rcVer.BlockBogons)

\* C9: a router contact whose Sign succeeded, with its fields as signed,
\* passes Verify(now) whenever its netID is the expected one, no address is
\* refused by the bogon policy in force and it is not expired at now; so
\* does the instance a peer decoded from its encoding.
C9_SignThenVerify ==
    (/\ rcVer.called
     /\ InSync(rcVer.inst)
     /\ Verified.netID = NetID_DefaultValue
     /\ AddrsAllowed
     /\ ~IsExpired(Verified, rcVer.now))
    => rcVer.ok

\* a signed contact, encoded, decoded by the peer and verified there
C9_Witness ==
    /\ rcVer.called /\ rcVer.inst = "peer" /\ rcVer.ok
    /\ InSync("peer") /\ InSync("local")
    /\ wire # NoWire
    /\ Verified.netID = NetID_DefaultValue
    /\ AddrsAllowed
    /\ ~IsExpired(Verified, rcVer.now)

\* C10: once a signed field (addrs, netID, enckey, pubkey, nickname,
\* last_updated) of a signed or decoded router contact differs from what was
\* signed, and the contact has not been signed again, Verify returns false.
C10_TamperDetected ==
    (/\ rcVer.called
     /\ rcSigned[rcVer.inst] # NoFields
     /\ SignedFields(Verified) # rcSigned[rcVer.inst])
    => ~rcVer.ok

\* the bytes the signature of a contact is checked against: the retained
\* signed bytes (version 1), the signed section with the signature zeroed
\* (version 0)
SignedSection(rc) ==
    IF rc.version = 1 THEN rc.signed_bt_dict
    ELSE BEncodeSignedSection([rc EXCEPT !.signature = ZeroSig])

\* the four checks of the last Verify, each on its own
SignatureOk == verify(Verified.pubkey, SignedSection(Verified), Verified.signature)
NetIDOk == Verified.netID = NetID_DefaultValue
AddressesOk ==
    ~rcVer.BlockBogons \/ \A k \in 1..Len(Verified.addrs) : ~IsBogon(Verified.addrs[k].ip)
ExpiryOk == rcVer.allowExpired \/ ~IsExpired(Verified, rcVer.now)

\* C11: Verify is a conjunction of independent rejections.  Every call of
\* Verify that returned true had a verifying signature over the signed
\* section, the expected netID, no refused address under the bogon policy
\* in force, and was unexpired or asked with allowExpired; so one failing
\* check alone makes it false.
C11_VerifyConjunction ==
    (rcVer.called /\ rcVer.ok) =>
        (SignatureOk /\ NetIDOk /\ AddressesOk /\ ExpiryOk)

\* a Verify refused for its advertised address alone
C11_Witness ==
    /\ rcVer.called /\ ~rcVer.ok
    /\ SignatureOk /\ NetIDOk /\ ExpiryOk /\ ~AddressesOk

\* C12: expiry is rejected only on opt-out.  A Verify of an expired contact
\* that passes every other check returns false exactly when allowExpired is
\* false; asked through the scripting binding, which passes no flag, it
\* returns true.
C12_ExpiryOptOut ==
    (/\ rcVer.called
     /\ SignatureOk /\ NetIDOk /\ AddressesOk
     /\ IsExpired(Verified, rcVer.now)) =>
        /\ ~rcVer.ok <=> ~rcVer.allowExpired
        /\ rcVer.byBinding => rcVer.ok

\* the binding accepted an expired contact
C12_Witness ==
    /\ rcVer.called /\ rcVer.byBinding /\ rcVer.ok
    /\ IsExpired(Verified, rcVer.now)
    /\ rcSigned[rcVer.inst] # NoFields

\* C13: encode/decode round trip.  The bytes of a contact in either format
\* version decode successfully into an instance equal (operator==) to the
\* contact.  Encoding that instance gives the same bytes again when they
\* were version 1; for version 0 bytes it gives the version 1 encoding,
\* which decodes to an equal instance, while the signed section of the
\* decoded instance is the version 0 bytes again.
C13_RoundTrip ==
    (/\ codec.enc.called /\ codec.enc.ok /\ ~codec.enc.retagged
     /\ codec.dec.called) =>
        /\ codec.dec.ok
        /\ Equals(codec.dec.rc, codec.rc)
        /\ codec.reenc.called =>
              /\ codec.reenc.ok
              /\ codec.enc.wrote = 1 => codec.reenc.buf = codec.enc.buf
              /\ codec.enc.wrote = 0 =>
                    /\ Layout(codec.reenc.buf) = 1
                    /\ BEncodeSignedSection(codec.dec.rc) = codec.enc.buf
                    /\ BDecode(NewRouterContact, codec.reenc.buf).ok
                    /\ Equals(BDecode(NewRouterContact, codec.reenc.buf).rc,
                              codec.rc)

\* a signed contact with two addresses, a nickname and a router version
\* went through BEncode, BDecode and BEncode
C13_Witness ==
    /\ codec.signed /\ Len(codec.rc.addrs) = 2
    /\ Nick(codec.rc) # <<>> /\ codec.rc.routerVersion # NoRouterVersion
    /\ codec.enc.called /\ codec.enc.ok /\ ~codec.enc.retagged
    /\ codec.enc.wrote = 1
    /\ codec.dec.called /\ codec.dec.ok
    /\ codec.dec.rc.routerVersion = codec.rc.routerVersion
    /\ codec.reenc.called /\ codec.reenc.buf = codec.enc.buf

\* C13 as stated: for both format versions, encoding the decoded instance
\* reproduces the bytes that were decoded
C13_SameBytes ==
    (/\ codec.enc.called /\ codec.enc.ok /\ ~codec.enc.retagged
     /\ codec.dec.called) =>
        /\ codec.dec.ok
        /\ Equals(codec.dec.rc, codec.rc)
        /\ codec.reenc.called =>
              (codec.reenc.ok /\ codec.reenc.buf = codec.enc.buf)

\* C14: versioned decode.  BEncode emits the ordered-list layout with the
\* current version tag and nothing else; BDecode succeeds only on bytes whose
\* version tag is 0 or 1 and whose layout is the one the tag names, so bytes
\* with any other tag are refused in either layout.
C14_VersionedDecode ==
    /\ (codec.enc.called /\ codec.enc.ok /\ codec.enc.wrote = 1
            /\ ~codec.enc.retagged) =>
          /\ Layout(codec.enc.buf) = 1
          /\ VersionTag(codec.enc.buf) = CURRENT_RC_VERSION
    /\ (codec.reenc.called /\ codec.reenc.ok) =>
          /\ Layout(codec.reenc.buf) = 1
          /\ VersionTag(codec.reenc.buf) = CURRENT_RC_VERSION
    /\ (codec.dec.called /\ codec.dec.ok) =>
          /\ VersionTag(codec.enc.buf) \in {0, 1}
          /\ Layout(codec.enc.buf) = VersionTag(codec.enc.buf)

\* version 0 bytes whose tag was rewritten to one that names no layout were
\* refused
C14_Witness ==
    /\ codec.enc.called /\ codec.enc.retagged
    /\ Layout(codec.enc.buf) = 0
    /\ VersionTag(codec.enc.buf) \notin {0, 1}
    /\ codec.dec.called /\ ~codec.dec.ok

\* C15: expiry boundary.  For the contact held, last updated at t0, with
\* the process-wide Lifetime L: IsExpired(now) is true exactly when
\* now - t0 >= L; it is false at t0 + L - 1 and true at t0 + L, where
\* TimeUntilExpires is 0.
C15_ExpiryBoundary ==
    hold.tq.called =>
        /\ hold.tq.expired <=> (hold.tq.now - hold.held.last_updated >= Lifetime)
        /\ hold.tq.now = hold.held.last_updated + Lifetime - 1 => ~hold.tq.expired
        /\ hold.tq.now = hold.held.last_updated + Lifetime =>
              (hold.tq.expired /\ hold.tq.until = 0)

\* the queries were asked at the instant of expiry of a contact updated
\* after time 0
C15_Witness ==
    /\ hold.tq.called /\ hold.held.last_updated > 0
    /\ hold.tq.now = hold.held.last_updated + Lifetime
    /\ hold.tq.expired /\ hold.tq.until = 0

\* C16: time-query coherence.  For every contact and every now, also a now
\* before last_updated: TimeUntilExpires is not negative, it is 0 exactly
\* when IsExpired, and an expired contact expires soon for every delta >= 0.
C16_TimeCoherence ==
    hold.tq.called =>
        /\ hold.tq.until >= 0
        /\ hold.tq.until = 0 <=> hold.tq.expired
        /\ hold.tq.expired => hold.tq.soon

\* the queries were asked at a now before last_updated
C16_Witness ==
    /\ hold.tq.called /\ hold.tq.now < hold.held.last_updated
    /\ hold.tq.until > Lifetime /\ ~hold.tq.expired /\ hold.tq.age = 0
    /\ hold.tq.dlt = 0 /\ ~hold.tq.soon

\* C17: conflict resolution.  OtherIsNewer holds exactly when the other
\* contact's last_updated is larger, so never in both directions and in
\* neither for equal timestamps; the holder that replaces on OtherIsNewer
\* keeps a contact whose last_updated is the largest seen for the key and
\* never smaller than before.
C17_NewestKept ==
    /\ hold.cmp.called =>
          /\ hold.cmp.newer <=>
                (hold.cmp.before.last_updated < hold.cmp.other.last_updated)
          /\ ~(hold.cmp.newer /\ hold.cmp.older)
          /\ hold.cmp.before.last_updated = hold.cmp.other.last_updated =>
                (~hold.cmp.newer /\ ~hold.cmp.older)
          /\ hold.held.last_updated >= hold.cmp.before.last_updated
    /\ hold.held.last_updated = hold.seen

\* an incoming contact of the held key with the held timestamp, other than
\* the contact held, was turned down after the held one had been updated
C17_Witness ==
    /\ hold.cmp.called /\ hold.cmp.other # hold.cmp.before
    /\ hold.cmp.other.pubkey = hold.cmp.before.pubkey
    /\ hold.cmp.other.last_updated = hold.cmp.before.last_updated
    /\ ~hold.cmp.newer /\ ~hold.cmp.older
    /\ hold.held = hold.cmp.before /\ hold.seen = MaxNow

\* the seven members operator== compares
SameIdentity(a, b) ==
    /\ a.addrs = b.addrs /\ a.enckey = b.enckey /\ a.pubkey = b.pubkey
    /\ a.signature = b.signature /\ a.nickname = b.nickname
    /\ a.last_updated = b.last_updated /\ a.netID = b.netID

\* C18: equality.  Two contacts compare equal exactly when addrs, enckey,
\* pubkey, signature, nickname, last_updated and netID are equal, whatever
\* their version, routerVersion and retained signed bytes; operator!= is
\* the negation of operator==.
C18_Equality ==
    hold.cmp.called =>
        /\ hold.cmp.eq <=> SameIdentity(hold.cmp.before, hold.cmp.other)
        /\ hold.cmp.neq <=> ~hold.cmp.eq

\* two contacts that differ in format metadata alone compared equal
C18_Witness ==
    /\ hold.cmp.called /\ hold.cmp.eq /\ ~hold.cmp.neq
    /\ \/ hold.cmp.before.version # hold.cmp.other.version
       \/ hold.cmp.before.routerVersion # hold.cmp.other.routerVersion
       \/ hold.cmp.before.signed_bt_dict # hold.cmp.other.signed_bt_dict

\* C19: cipher involution.  xchacha20 applied twice in place with the same
\* key and nonce leaves the buffer as it was; xchacha20_alt from in to out
\* and then from out to out2 leaves the bytes of in at the head of out2.
C19_CipherInvolution ==
    /\ xc.applied = 2 => xc.buff.base = xc.orig
    /\ (xc.back.called /\ xc.back.ret) =>
          SubSeq(xc.back.out.base, 1, Len(xc.orig)) = xc.orig

\* a buffer of full length changed under the cipher and came back, in place
\* and through two destinations
C19_Witness ==
    /\ xc.applied = 2 /\ Len(xc.orig) = MaxBuf
    /\ \A j \in 1..MaxBuf : xc.once[j] # xc.orig[j]
    /\ xc.back.called /\ xc.back.ret
    /\ SubSeq(xc.alt.out.base, 1, MaxBuf) = xc.once

\* C20: xchacha20_alt and the sizes.  With in.sz > out.sz it returns false
\* and leaves the destination as it was; with in.sz <= out.sz it returns
\* true, the first in.sz bytes of the destination are the input xor the key
\* stream, and every byte after them, inside the destination and past its
\* size, is as it was.
C20_AltBounded ==
    xc.alt.called =>
        IF xc.alt.in.sz > xc.alt.before.sz
        THEN ~xc.alt.ret /\ xc.alt.out = xc.alt.before
        ELSE /\ xc.alt.ret
             /\ xc.alt.out.sz = xc.alt.before.sz
             /\ \A j \in 1..Len(xc.alt.out.base) :
                   xc.alt.out.base[j] =
                     IF j <= xc.alt.in.sz
                     THEN BitXor(xc.alt.in.base[j],
                                 crypto_stream_xchacha20(xc.alt.in.sz, xc.n, xc.k)[j])
                     ELSE xc.alt.before.base[j]

\* a destination one byte too small was refused
C20_Witness ==
    /\ xc.alt.called /\ ~xc.alt.ret
    /\ xc.alt.before.sz > 0
    /\ xc.alt.in.sz = xc.alt.before.sz + 1

(***************************************************************************)
(* Process start: properties.                                              *)
(***************************************************************************)
\* C21: a provider operation runs only in a process whose library
\* initialization has succeeded and whose provider is constructed; once a
\* construction has failed the process is over and the list of operations
\* run, still empty, never grows
C21_InitBeforeUse ==
    [][/\ proc.ops' # proc.ops =>
             /\ proc.lib = "ready"
             /\ proc.seeded
             /\ proc.pc = "main"
       /\ proc.pc = "fatal" => (proc.ops = <<>> /\ proc.lib # "ready")]_vars

C21_Witness ==
    /\ proc.lib = "ready"
    /\ proc.providers = MaxProviders
    /\ Len(proc.ops) = MaxOps
    /\ proc.ops[1] = "sign" /\ proc.ops[2] = "verify"

(***************************************************************************)
(* Identity keys: properties.                                              *)
(***************************************************************************)
\* C22: the public half of a key made by identity_keygen or
\* seed_to_secretkey is the public key of its private scalar and
\* check_identity_privkey accepts it; check_identity_privkey refuses every
\* key that is not the key pair derived again from its own seed
C22_SecretKeyIntegrity ==
    /\ kc.origin \in {"keygen", "seed"} =>
          /\ seckey_topublic(kc.key)
                = PrivateKey_toPublic(SecretKey_toPrivate(kc.key))
          /\ kc.check.called => kc.check.ret
    /\ (/\ kc.check.called
        /\ \E pos \in 1..4 :
              kc.key[pos]
                 # (SubSeq(kc.key, 1, 2)
                      \o PrivateKey_toPublic(SecretKey_toPrivate(kc.key)))[pos])
          => ~kc.check.ret

C22_Witness ==
    /\ kc.origin = "stored"
    /\ kc.made.called /\ kc.made.ret
    /\ kc.check.called /\ ~kc.check.ret
    /\ SubSeq(kc.key, 1, 2) \in Seeds
    /\ seckey_topublic(kc.key)
          # seckey_topublic(seed_to_secretkey(SubSeq(kc.key, 1, 2)))

(***************************************************************************)
(* Subkey derivation with a pre-computed blinding value: properties.      *)
(***************************************************************************)
\* the last derive_subkey of slot i was given the root's own public key
FromRoot(i) ==
    edSub[i].pub.called /\ edSub[i].pub.key = seckey_topublic(edRoot)

\* C23: with a pre-computed blinding value passed, the index plays no part:
\* the two slots, whatever their indices, get the same public subkey and the
\* same private subkey, and the public subkey is the public key of the
\* private subkey
C23_ScalarOverride ==
    edIn.hash # NoHash =>
        /\ \A i, j \in EdSlots :
              /\ (FromRoot(i) /\ FromRoot(j))
                    => /\ edSub[i].pub.ret = edSub[j].pub.ret
                       /\ edSub[i].pub.out = edSub[j].pub.out
              /\ (edSub[i].priv.called /\ edSub[j].priv.called)
                    => /\ edSub[i].priv.ret = edSub[j].priv.ret
                       /\ edSub[i].priv.out = edSub[j].priv.out
        /\ \A i \in EdSlots :
              /\ FromRoot(i) =>
                    edSub[i].pub.out
                       = crypto_scalarmult_ed25519(
                             ZeroBuf, edIn.hash, seckey_topublic(edRoot)).q
              /\ (/\ edSub[i].pub.called /\ edSub[i].pub.ret
                  /\ edSub[i].priv.called /\ edSub[i].priv.ret)
                    => edSub[i].pub.out = PrivateKey_toPublic(edSub[i].priv.out)

C23_Witness ==
    /\ edIn.hash # NoHash
    /\ edIn.idx[1] # edIn.idx[2]
    /\ make_scalar(seckey_topublic(edRoot), edIn.idx[1])
          # make_scalar(seckey_topublic(edRoot), edIn.idx[2])
    /\ \A i \in EdSlots :
          /\ edSub[i].pub.called /\ edSub[i].pub.ret
          /\ edSub[i].priv.called /\ edSub[i].priv.ret
    /\ edSub[1].pub.out = PrivateKey_toPublic(edSub[2].priv.out)

(***************************************************************************)
(* Readers of one contact: properties.                                     *)
(***************************************************************************)
\* the bytes the signature of the contact read is over
SignedBytesRead ==
    IF rd.orig.version = 1 THEN rd.orig.signed_bt_dict
    ELSE BEncodeSignedSection([rd.orig EXCEPT !.signature = ZeroSig])

\* what a query asked at `now` returns when it runs alone on the contact the
\* readers started with
Alone(q, now) ==
    LET t0 == rd.orig.last_updated
        left == IF now < t0 + Lifetime THEN t0 + Lifetime - now ELSE 0
        sound ==
            /\ rd.orig.netID = NetID_DefaultValue
            /\ \A k \in 1..Len(rd.orig.addrs) : ~IsBogon(rd.orig.addrs[k].ip)
            /\ crypto_sign_verify_detached(
                   rd.orig.signature, SignedBytesRead, rd.orig.pubkey) = 0
    IN  CASE q = "Verify" -> sound
          [] q = "VerifyFresh" -> sound /\ left > 0
          [] q = "Age" -> IF now > t0 THEN now - t0 ELSE 0
          [] q = "TimeUntilExpires" -> left
          [] q = "IsExpired" -> left = 0
          [] q = "ExpiresSoon" -> left <= 1
          [] q = "OtherIsNewer" -> t0 < now
          [] OTHER -> t0 = now

CarriesSignatureOver(bytes, rc) ==
    /\ BDecode(NewRouterContact, bytes).ok
    /\ VerifySignature(BDecode(NewRouterContact, bytes).rc)
    /\ \A f \in {"addrs", "netID", "enckey", "nickname"} :
          BDecode(NewRouterContact, bytes).rc[f] = rc[f]

\* C25: the bytes a successful Write has stored carry a signature that is
\* valid over the fields the contact had at the call; a successful Read of
\* those bytes gives a contact equal to that one
C25_Persistence ==
    /\ (fs.wr.called /\ fs.wr.ret) => CarriesSignatureOver(fs.file, fs.wr.rc)
    /\ (fs.wr.called /\ fs.wr.ret /\ fs.rdr.called) =>
          fs.rdr.ok /\ Equals(fs.rdr.rc, fs.wr.rc)

(***************************************************************************)
(* Reads from a buffer: properties.                                        *)
(***************************************************************************)
RECURSIVE DigitsValue(_, _, _)
\* the number the digits buf[a..b] spell
DigitsValue(buf, a, b) ==
    IF b < a THEN 0 ELSE DigitsValue(buf, a, b - 1) * 10 + (buf[b] - 48)

\* buf[a..b] is a non-empty run of digits spelling a number of the width
\* the reads accept
NumberAt(buf, a, b) ==
    /\ a <= b /\ b <= Len(buf)
    /\ \A j \in a..b : IsDigit(buf[j])
    /\ DigitsValue(buf, a, b) < 10000000

\* the positions k of an 'e' that closes an integer opened at cur
IntegerEnds(buf, cur) ==
    {k \in 1..Len(buf) :
        /\ cur <= Len(buf) /\ buf[cur] = 105
        /\ buf[k] = 101
        /\ NumberAt(buf, cur + 1, k - 1)}

\* the positions k of a ':' that closes a length prefix begun at cur, the
\* bytes it announces all inside the buffer
StringColons(buf, cur) ==
    {k \in 1..Len(buf) :
        /\ buf[k] = 58
        /\ NumberAt(buf, cur, k - 1)
        /\ k + DigitsValue(buf, cur, k - 1) <= Len(buf)}

\* C26: a read leaves the cursor inside the buffer or at its end, and never
\* before where it was; it succeeds exactly when the framing at the cursor
\* is whole (an integer closed by 'e', a length prefix closed by ':' with
\* all its bytes present, a container closed by 'e'), and then gives the
\* value framed and the cursor after it; an integer or a byte string just
\* written reads back as the value written, the cursor at the end
C26_BoundedDecode ==
    bd.res.called =>
        /\ bd.res.cur >= bd.cur /\ bd.res.cur <= Len(bd.buf) + 1
        /\ ~bd.res.ok => bd.res.cur = bd.cur
        /\ bd.res.op = "integer" =>
              /\ bd.res.ok <=> IntegerEnds(bd.buf, bd.cur) # {}
              /\ \A k \in IntegerEnds(bd.buf, bd.cur) :
                    /\ bd.res.ival = DigitsValue(bd.buf, bd.cur + 1, k - 1)
                    /\ bd.res.cur = k + 1
        /\ bd.res.op = "string" =>
              /\ bd.res.ok <=> StringColons(bd.buf, bd.cur) # {}
              /\ \A k \in StringColons(bd.buf, bd.cur) :
                    /\ bd.res.sval
                          = SubSeq(bd.buf, k + 1,
                                   k + DigitsValue(bd.buf, bd.cur, k - 1))
                    /\ bd.res.cur
                          = k + DigitsValue(bd.buf, bd.cur, k - 1) + 1
        /\ (bd.res.op = "skip" /\ bd.res.ok) =>
              /\ bd.res.cur > bd.cur
              /\ bd.buf[bd.cur] \in {100, 108} =>
                    bd.buf[bd.res.cur - 1] = 101
        /\ (bd.wrote.kind = bd.res.op) =>
              /\ bd.res.ok
              /\ bd.res.ival = bd.wrote.ival
              /\ bd.res.sval = bd.wrote.sval
              /\ bd.res.cur = Len(bd.buf) + 1

\* a length prefix closed by ':' announced more bytes than the buffer holds
\* and the read was refused
C26_Witness ==
    /\ bd.res.called /\ bd.res.op = "string" /\ ~bd.res.ok
    /\ \E k \in bd.cur + 1..Len(bd.buf) :
          /\ bd.buf[k] = 58
          /\ NumberAt(bd.buf, bd.cur, k - 1)
          /\ k + DigitsValue(bd.buf, bd.cur, k - 1) > Len(bd.buf)

(***************************************************************************)
(* Clamping: properties.                                                   *)
(***************************************************************************)
\* C27: the clamping written out in derive_subkey_private gives the bytes
\* clamp_ed25519 gives; a clamped value is clamped (clamping it again
\* changes nothing); the low three bits and the top bit are clear and the
\* bit below the top is set
C27_ClampEquivalence ==
    cl.called =>
        /\ cl.inline = cl.std
        /\ cl.again = cl.std
        /\ cl.clamped
        /\ is_clamped(cl.inline)
        /\ cl.std[1] % 8 = 0 /\ cl.std[1] \div 8 = cl.h[1] \div 8
        /\ cl.std[2] \in 64..127 /\ cl.std[2] % 64 = cl.h[2] % 64

\* a value with the low bits and the two top bits set was clamped
C27_Witness ==
    /\ cl.called
    /\ cl.h[1] % 8 = 7 /\ cl.h[2] >= 192
    /\ cl.inline # cl.h
    /\ cl.inline = cl.std

(***************************************************************************)
(* The logic thread: properties.                                           *)
(***************************************************************************)
\* the places a call's job waits or runs at: the queue, the timer, the
\* timers a tick took out, the pool's thread
PlacesOf(job) ==
    Cardinality({k \in 1..Len(lg.queue) : lg.queue[k] = CallJob(job)})
       + Cardinality({t \in lg.timer : t.job = job})
       + Cardinality({t \in lg.hit : t.job = job})
       + (IF CallJob(job) \in lg.running THEN 1 ELSE 0)

\* the timer entry of a deferred call
DeferredEntry(job, delay) ==
    [job |-> job, timeout |-> delay, func |-> FALSE, deferredFunc |-> TRUE,
     canceled |-> FALSE]

\* the step in which _traceLogicCall hands over the job of a caller: made
\* from the logic thread with the queue looking full, it answers true, adds
\* the job to the timer with half a guessed latency as its delay and leaves
\* the queue alone; otherwise it answers true exactly when the queue takes
\* jobs and has room, the job is then the last of the queue, and a refused
\* job is nowhere
HandsOver(caller) ==
    (lg.at[caller].pc = "submit" /\ lg'.at[caller].pc # "submit") =>
        IF caller = "logic" /\ lg.at[caller].full
        THEN /\ lg'.calls[lg.at[caller].job].ret
             /\ lg'.calls[lg.at[caller].job].how = "deferred"
             /\ lg'.queue = lg.queue
             /\ \E latency \in Latencies :
                   /\ DeferredEntry(lg.at[caller].job, latency \div 2)
                         \notin lg.timer
                   /\ lg'.timer = lg.timer
                         \cup {DeferredEntry(lg.at[caller].job,
                                             latency \div 2)}
        ELSE /\ lg'.calls[lg.at[caller].job].ret <=>
                   (lg.enabled /\ Len(lg.queue) < lg.sz)
             /\ lg'.timer = lg.timer
             /\ lg'.calls[lg.at[caller].job].ret =>
                   /\ lg'.calls[lg.at[caller].job].how = "queued"
                   /\ lg'.queue = Append(lg.queue, CallJob(lg.at[caller].job))
             /\ ~lg'.calls[lg.at[caller].job].ret =>
                   /\ lg'.calls[lg.at[caller].job].how = "dropped"
                   /\ lg'.queue = lg.queue

\* no call has run twice, a call not accepted has not run and is nowhere, an
\* accepted call is at one place at most, at most one job is running, and
\* timers are executed by the running job of a tick only
RunsOnce ==
    /\ \A job \in 1..Len(lg.calls) :
          /\ lg.calls[job].runs + PlacesOf(job) <= 1
          /\ ~lg.calls[job].ret => lg.calls[job].runs + PlacesOf(job) = 0
    /\ Cardinality(lg.running) <= 1
    /\ lg.hit # {} => lg.running = {TickJob}

\* C28: a call through _traceLogicCall made from the logic thread to which
\* the queue looked full is answered true, goes to the timer with half the
\* guessed latency as its delay and is not put on the queue; any other such
\* call is handed to the queue and answered true exactly when the queue
\* takes it; no call runs twice or while another job runs, and a refused
\* call never runs
C28_CallAdmission ==
    /\ [][\A caller \in Callers : HandsOver(caller)]_vars
    /\ []RunsOnce

\* a call of the logic thread, asked while the queue of six held one job,
\* was deferred with a delay above zero and has run once
C28_Witness ==
    \E job \in 1..Len(lg.calls) :
        /\ lg.sz > Lookahead
        /\ lg.calls[job].kind = "func"
        /\ lg.calls[job].how = "deferred"
        /\ lg.calls[job].runs = 1
        /\ \A t \in lg.timer : t.job # job

(***************************************************************************)
(* Loading a configuration: properties.                                    *)
(***************************************************************************)
\* the number a text of digits spells, -1 for any other text
NumberOf(text) ==
    IF text # <<>> /\ \A k \in 1..Len(text) : IsDigit(text[k])
    THEN DigitsValue(text, 1, Len(text))
    ELSE -1

\* the options of [router] and [network] a file may name, of those the
\* files of the model name
Recognized ==
    {<<"router", "min-connections">>, <<"router", "max-connections">>,
     <<"router", "netid">>, <<"router", "job-queue-size">>,
     <<"router", "nickname">>, <<"network", "hops">>, <<"system", "user">>}

\* an entry no Load may accept: of a section or an option that is neither
\* defined nor handled, with a value its validator refuses, or one its
\* handler refuses
Unacceptable(e, isRelay) ==
    \/ e.section \notin {"router", "network", "system", "lokid", "bind",
                         "connect"}
    \/ e.section \in {"router", "network", "system"}
          /\ <<e.section, e.name>> \notin Recognized
    \/ e.section = "lokid" /\ ~isRelay
    \/ e.section = "router" /\ e.name = "netid" /\ Len(e.value) > NetID_size
    \/ e.section = "router" /\ e.name = "min-connections"
          /\ NumberOf(e.value) < minConnections(isRelay)
    \/ e.section = "router" /\ e.name = "max-connections"
          /\ NumberOf(e.value) < maxConnections(isRelay)
    \/ e.section = "router" /\ e.name = "job-queue-size"
          /\ NumberOf(e.value) < 1024
    \/ e.section = "network" /\ e.name = "hops"
          /\ NumberOf(e.value) \notin 1..8
    \/ e.section = "bind" /\ e.name # "*"
          /\ \A k \in 1..Len(e.value) : e.value[k] \notin 49..57
    \/ e.section = "bind" /\ e.name = "address"
    \/ e.section = "connect" /\ e.value \notin ExistingFiles

\* the step in which Load is called and returns: no exception leaves it; it
\* answers false for a file with an entry that is not recognized or that
\* its validator or handler refuses; when it answers true, max-connections
\* is at least min-connections and each is at least the default of the role
LoadReturns ==
    (cfg'.load.n = cfg.load.n + 1) =>
        /\ ~cfg'.load.escaped
        /\ (\E k \in 1..Len(cfg'.load.file) :
               Unacceptable(cfg'.load.file[k], cfg'.load.isRelay))
              => ~cfg'.load.ret
        /\ cfg'.load.ret =>
              /\ cfg'.load.readable
              /\ cfg'.config.router.m_maxConnectedRouters
                    >= cfg'.config.router.m_minConnectedRouters
              /\ cfg'.config.router.m_minConnectedRouters
                    >= minConnections(cfg'.load.isRelay)
              /\ cfg'.config.router.m_maxConnectedRouters
                    >= maxConnections(cfg'.load.isRelay)

\* C29: no exception leaves Load; Load answers false for a file with an
\* entry that is not recognized or that its validator refuses; when Load
\* answers true, max-connections is at least min-connections and each is at
\* least the default of the role, whatever the Config held before
C29_LoadGuarded == [][LoadReturns]_vars

\* in a directory that exists, on a machine with a free tun and a free
\* range, each of the two options passed its validator and Load answered
\* false, the minimum being above the maximum
C29_Witness ==
    /\ cfg.load.n > 0 /\ cfg.load.readable /\ ~cfg.load.ret
    /\ cfg.load.defaultDataDir \in ExistingFiles
    /\ cfg.machine = Machine
    /\ Len(cfg.load.file) = 2
    /\ \E k \in 1..2 : cfg.load.file[k].name = "min-connections"
    /\ \E k \in 1..2 : cfg.load.file[k].name = "max-connections"
    /\ \A k \in 1..2 : ~Unacceptable(cfg.load.file[k], cfg.load.isRelay)
    /\ cfg.config.router.m_minConnectedRouters
          > cfg.config.router.m_maxConnectedRouters
    /\ cfg.config.router.m_maxConnectedRouters
          >= maxConnections(cfg.load.isRelay)

(***************************************************************************)
(* The registry of option definitions: properties.                         *)
(***************************************************************************)
\* the mode of the registry excludes the definition
Excluded(def) == IF reg.r.relay THEN def.clientOnly ELSE def.relayOnly

\* call k is the first call that passed a definition for its section (for
\* its section and name) which the mode does not exclude
FirstOfSection(k) ==
    /\ ~Excluded(reg.calls[k].def)
    /\ \A j \in 1..(k - 1) :
          Excluded(reg.calls[j].def)
             \/ reg.calls[j].def.section # reg.calls[k].def.section

FirstOfName(k) ==
    /\ ~Excluded(reg.calls[k].def)
    /\ \A j \in 1..(k - 1) :
          \/ Excluded(reg.calls[j].def)
          \/ reg.calls[j].def.section # reg.calls[k].def.section
          \/ reg.calls[j].def.name # reg.calls[k].def.name

\* seq lists, in their order, the values f gives the calls of S
ListsInOrder(seq, S, f(_)) ==
    /\ Len(seq) = Cardinality(S)
    /\ \A a, b \in 1..Len(seq) :
          a < b => \E j, k \in S : j < k /\ f(j) = seq[a] /\ f(k) = seq[b]
    /\ Len(seq) = 1 => \E j \in S : f(j) = seq[1]

SectionOfCall(k) == reg.calls[k].def.section
NameOfCall(k) == reg.calls[k].def.name

\* C30: a call throws exactly when the mode does not exclude its definition
\* and its section and name are registered already, and then changes
\* nothing; a call the mode excludes changes nothing; what is registered
\* under a section and a name is the first definition passed for them that
\* the mode does not exclude; the section ordering lists the registered
\* sections, and the ordering of each section its registered names, once
\* each and in the order of their first definition; the lookups of
\* visitSections and visitDefinitions succeed
C30_RegistryInvariant ==
    /\ \A k \in 1..Len(reg.calls) :
          /\ reg.calls[k].thrown
                <=> (~Excluded(reg.calls[k].def) /\ reg.calls[k].there)
          /\ reg.calls[k].thrown => ~reg.calls[k].changed
          /\ Excluded(reg.calls[k].def) => ~reg.calls[k].changed
          /\ FirstOfName(k) =>
                /\ Defined(reg.r.m_definitions, SectionOfCall(k), NameOfCall(k))
                /\ reg.r.m_definitions[SectionOfCall(k)][NameOfCall(k)]
                      = reg.calls[k].def
    /\ \A s \in DOMAIN reg.r.m_definitions :
          \A n \in DOMAIN reg.r.m_definitions[s] :
              /\ ~Excluded(reg.r.m_definitions[s][n])
              /\ \E k \in 1..Len(reg.calls) :
                    FirstOfName(k) /\ reg.calls[k].def = reg.r.m_definitions[s][n]
    /\ ListsInOrder(reg.r.m_sectionOrdering,
                    {k \in 1..Len(reg.calls) : FirstOfSection(k)},
                    SectionOfCall)
    /\ DOMAIN reg.r.m_definitionOrdering = DOMAIN reg.r.m_definitions
    /\ \A s \in DOMAIN reg.r.m_definitions :
          ListsInOrder(reg.r.m_definitionOrdering[s],
                       {k \in 1..Len(reg.calls) :
                           FirstOfName(k) /\ SectionOfCall(k) = s},
                       NameOfCall)
    /\ \A k \in 1..Len(reg.r.m_sectionOrdering) :
          /\ visitSections(reg.r)[k]
          /\ visitDefinitions(reg.r, reg.r.m_sectionOrdering[k])

\* a definition was registered, one the mode excludes was passed over, and
\* a second definition of the registered name threw
C30_Witness ==
    /\ Len(reg.calls) = 3
    /\ ~Excluded(reg.calls[1].def) /\ ~reg.calls[1].thrown
    /\ Excluded(reg.calls[2].def)
    /\ reg.calls[2].def.section # reg.calls[1].def.section
    /\ reg.calls[3].thrown
    /\ reg.calls[3].def.name = reg.calls[1].def.name
    /\ reg.r.m_sectionOrdering = <<reg.calls[1].def.section>>

====
